---- MODULE Spec2Model ----
(***************************************************************************)
(* Line-of-sight blockage engine and sun-window aggregator of              *)
(* When-Is-Sun-Home (src/lib/sunBlockage.ts, kept in src/unnamed/part_009) *)
(* with the hook that drives them (src/hooks/useDayBlockage.ts).           *)
(* Further sections model the Overpass conversion (src/lib/overpass.ts,    *)
(* kept in src/unnamed/part_006), deriveSunVisibility (src/types/sun.ts,   *)
(* kept in src/unnamed/part_000), computeShadows (src/lib/shadows.ts) and  *)
(* the ephemeris functions of src/hooks/useSunCalculations.ts; each is     *)
(* called directly, with its arguments in callArgs and its return value    *)
(* in callResult.                                                          *)
(*                                                                         *)
(* Geometry.  The engine works within 500 m of the pin, where the turf     *)
(* calls are planar to well below the 1 m resolution the code cares about. *)
(* The model uses a local plane centred on the pin: x grows east, y grows  *)
(* north, lengths are integers counted in 1/PerMetre metres.  Footprints   *)
(* are axis-parallel rings and the sun stands at a cardinal azimuth, so    *)
(* turf.lineIntersect and turf.distance are exact integer computations.    *)
(* Angles are compass degrees.  Trigonometry uses a sine table scaled by   *)
(* 10^4, and products are compared cross-multiplied, in exact arithmetic.  *)
(***************************************************************************)
EXTENDS Integers, Sequences, FiniteSets, TLC

VARIABLES
  location,        \* Location of the pin, <<x, y>> in the local plane
  sunPosition,     \* sunData.position: [azimuth, altitude] in degrees
  arc,             \* sunData.arc: sequence of ArcPoint [time, azimuth, altitude]
  buildingData,    \* buildingData.features: sequence of BuildingFeature
  userElevation,   \* metres above ground, (userFloor - 1) * 3
  pinDirection,    \* optional facing direction: <<>> (undefined) or <<deg>>
  pinFov,          \* field of view in degrees
  sunBlockage,     \* result of computeBlockage: <<>> (null) or <<SunBlockageInfo>>
  dayBlockageMap,  \* DayBlockageMap.points: <<>> (null) or <<sequence of BlockagePoint>>
  sunWindows,      \* <<>> (null) or <<sequence of SunWindow>>
  callArgs,        \* arguments of a direct call of an exported function, by
                   \* parameter name; <<>> when no such call is modelled
  callResult       \* <<>> before the call returns, <<value>> afterwards

\* State of useSunCalculations (src/unnamed/part_001).
VARIABLES
  geoLocation,     \* the location argument: <<>> (null) or <<[lat, lng]>>
  dateTime,        \* the dateTime argument, a Date
  arcMemoDeps,     \* dependency list of the arc memo at its last evaluation
  arcMemo,         \* value kept by the arc memo: <<>> (null) or <<arc>>
  sunDataMemo,     \* value returned by the hook: <<>> (null) or <<SunData>>
  arcComputations, \* number of evaluations of the arc memo so far
  renders          \* number of renders of the hook so far

memoVars == <<geoLocation, dateTime, arcMemoDeps, arcMemo, sunDataMemo,
              arcComputations, renders>>

\* useBuildingData: its arguments, its state, its refs, and the browser around
\* it (pending timers, fetches in flight, localStorage, the clock).
VARIABLES
  fetchLocation,   \* the location argument: <<>> (null) or <<[lat, lng]>>
  enabled,         \* the enabled argument
  fetchedData,     \* state buildingData: <<>> (null) or <<BuildingGeoJSON>>
  pinBuilding,     \* state pinBuilding: <<>> (null) or <<BuildingFeature>>
  isLoading,       \* state isLoading
  cacheRef,        \* cacheRef.current: set of [key, data], one per key
  debounceRef,     \* debounceRef.current: <<>> (null) or <<timer id>>
  abortRef,        \* abortRef.current: <<>> (null) or <<controller id>>
  cleanup,         \* whether the last run of the effect returned a cleanup
  effectRun,       \* number of runs of the effect so far
  timers,          \* pending timeouts: set of [id, location, cacheKey, deadline]
  requests,        \* fetches not yet settled: set of [id, location, cacheKey, aborted]
  store,           \* localStorage cache: sequence of [key, timestamp, data]
  now,             \* Date.now() in milliseconds
  waits            \* number of long idle periods so far

fetchVars == <<fetchLocation, enabled, fetchedData, pinBuilding, isLoading,
               cacheRef, debounceRef, abortRef, cleanup, effectRun, timers,
               requests, store, now, waits>>

\* Direct calls of saveBuildingsToCache on the store.
VARIABLES
  saves,           \* number of calls of saveBuildingsToCache so far
  resaved          \* whether a key already in the store has been saved again

cacheVars == <<saves, resaved>>

\* useShadowLayer: its refs, the map, and the clock.
VARIABLES
  dataRef,         \* dataRef.current: [buildingData, sunData, enabled]
  readyRef,        \* readyRef.current
  timerRef,        \* timerRef.current: <<>> (null) or <<time the timeout is due>>
  throttleCleanup, \* whether the last run of the throttle effect returned a cleanup
  mapData,         \* data of the shadow source: <<>> (no source) or <<features>>
  layerVisibility, \* layout property "visibility" of the shadow layer
  shadowNow,       \* the clock, in milliseconds
  unpushedSince    \* history: <<>> or <<time of the first change not yet pushed>>

shadowVars == <<dataRef, readyRef, timerRef, throttleCleanup, mapData,
                layerVisibility, shadowNow, unpushedSince>>

\* useAnimationTimer: its arguments, its refs, and the interval timers of
\* the browser.
VARIABLES
  isPlaying,       \* the isPlaying argument
  speed,           \* the speed argument, a multiplier
  onTick,          \* the onTick argument: the number of the callback
  intervalRef,     \* intervalRef.current: <<>> (null) or <<interval id>>
  onTickRef,       \* onTickRef.current: the number of a callback
  intervals,       \* installed interval timers: set of [id, ms]
  mounted,         \* whether the component is mounted
  invoked,         \* history: <<>> or <<the callback invoked by the last tick>>
  ticks,           \* number of ticks so far
  timerRenders     \* number of renders with changed arguments so far

timerVars == <<isPlaying, speed, onTick, intervalRef, onTickRef, intervals,
               mounted, invoked, ticks, timerRenders>>

hookVars == <<memoVars, fetchVars, cacheVars, shadowVars, timerVars>>

vars == <<location, sunPosition, arc, buildingData, userElevation, pinDirection,
          pinFov, sunBlockage, dayBlockageMap, sunWindows, callArgs, callResult,
          hookVars>>

---------------------------------------------------------------------------
(* Bounds of the model and units.                                          *)

\* Largest number of features in a building set of Spec.
MaxBuildings == 2
\* Largest number of features in a building set of SpecDay.
MaxDayBuildings == 1
\* Largest number of samples of an arc of SpecDay.
MaxArc == 3
\* Number of sample instants a blockage map of SpecWindows draws its points from.
MaxSamples == 5

\* Model length units per metre (turf.distance(...) * 1000 gives metres).
PerMetre == 2
\* Minutes between two samples of an arc.
StepMinutes == 10

None == <<>>
Some(x) == <<x>>

\* The hooks that a specification does not exercise stay unmounted.
MemoIdle ==
  /\ geoLocation = None
  /\ dateTime = 0
  /\ arcMemoDeps = None
  /\ arcMemo = None
  /\ sunDataMemo = None
  /\ arcComputations = 0
  /\ renders = 0

FetchIdle ==
  /\ fetchLocation = None
  /\ enabled = FALSE
  /\ fetchedData = None
  /\ pinBuilding = None
  /\ isLoading = FALSE
  /\ cacheRef = {}
  /\ debounceRef = None
  /\ abortRef = None
  /\ cleanup = FALSE
  /\ effectRun = 0
  /\ timers = {}
  /\ requests = {}
  /\ store = << >>
  /\ now = 0
  /\ waits = 0

CacheIdle == saves = 0 /\ resaved = FALSE

ShadowIdle ==
  /\ dataRef = [buildingData |-> None, sunData |-> None, enabled |-> FALSE]
  /\ readyRef = FALSE
  /\ timerRef = None
  /\ throttleCleanup = FALSE
  /\ mapData = None
  /\ layerVisibility = "visible"
  /\ shadowNow = 0
  /\ unpushedSince = None

TimerIdle ==
  /\ isPlaying = FALSE
  /\ speed = 1
  /\ onTick = 1
  /\ intervalRef = None
  /\ onTickRef = 1
  /\ intervals = {}
  /\ mounted = FALSE
  /\ invoked = None
  /\ ticks = 0
  /\ timerRenders = 0

HooksIdle == MemoIdle /\ FetchIdle /\ CacheIdle /\ ShadowIdle /\ TimerIdle

Abs(a) == IF a >= 0 THEN a ELSE -a

---------------------------------------------------------------------------
(* Arithmetic of the host language and of the geometry library.            *)

\* The remainder operator of JavaScript: the result takes the sign of the dividend.
JsRem(a, n) == IF a >= 0 THEN a % n ELSE -((-a) % n)

\* sin(k degrees) * 10^4 for k in 0..90, rounded.
SinTable ==
  << 0, 175, 349, 523, 698, 872, 1045, 1219, 1392, 1564, 1736, 1908, 2079,
     2250, 2419, 2588, 2756, 2924, 3090, 3256, 3420, 3584, 3746, 3907, 4067,
     4226, 4384, 4540, 4695, 4848, 5000, 5150, 5299, 5446, 5592, 5736, 5878,
     6018, 6157, 6293, 6428, 6561, 6691, 6820, 6947, 7071, 7193, 7314, 7431,
     7547, 7660, 7771, 7880, 7986, 8090, 8192, 8290, 8387, 8480, 8572, 8660,
     8746, 8829, 8910, 8988, 9063, 9135, 9205, 9272, 9336, 9397, 9455, 9511,
     9563, 9613, 9659, 9703, 9744, 9781, 9816, 9848, 9877, 9903, 9925, 9945,
     9962, 9976, 9986, 9994, 9998, 10000 >>

\* Math.sin and Math.cos of an angle given in whole degrees, scaled by 10^4.
SinE4(deg) ==
  LET d == deg % 360
  IN  IF d <= 90 THEN SinTable[d + 1]
      ELSE IF d <= 180 THEN SinTable[180 - d + 1]
      ELSE IF d <= 270 THEN -SinTable[d - 180 + 1]
      ELSE -SinTable[360 - d + 1]

CosE4(deg) == SinE4(deg + 90)

\* A geometric operation of the library fails on a feature when the feature
\* is marked as failing in that operation; a feature without a mark fails in
\* none.
Throws(b, operation) == "fails" \in DOMAIN b /\ b.fails = operation

\* turf.destination(origin, dist, bearing) for a cardinal bearing.
turfDestination(origin, dist, bearing) ==
  << origin[1] + (dist * SinE4(bearing)) \div 10000,
     origin[2] + (dist * CosE4(bearing)) \div 10000 >>

\* turf.distance between two points that share a coordinate (all the model's
\* ray/edge intersections do), in model length units.
turfDistance(p, q) == Abs(p[1] - q[1]) + Abs(p[2] - q[2])

\* turf.centroid: the mean of the ring's vertices, the closing vertex excluded.
RECURSIVE SumCoord(_, _, _)
SumCoord(ring, i, k) ==
  IF i = 0 THEN 0 ELSE ring[i][k] + SumCoord(ring, i - 1, k)

turfCentroid(b) ==
  LET n == Len(b.ring) - 1
  IN  << SumCoord(b.ring, n, 1) \div n, SumCoord(b.ring, n, 2) \div n >>

\* The whole degree in lo..hi whose unit vector is best aligned with the vector
\* that lies a units across and b units along the reference axis (a, b >= 0):
\* atan2(a, b) to the nearest degree, found by bisection on the rising flank of
\* a * sin(k) + b * cos(k).
RECURSIVE NearestDegree(_, _, _, _)
NearestDegree(a, b, lo, hi) ==
  LET Dot(k) == a * SinE4(k) + b * CosE4(k)
      mid == (lo + hi + 1) \div 2
  IN  IF lo >= hi THEN lo
      ELSE IF Dot(mid) >= Dot(mid - 1) THEN NearestDegree(a, b, mid, hi)
      ELSE NearestDegree(a, b, lo, mid - 1)

\* turf.bearing(p, q): the direction from p to q in degrees, -180..180, to the
\* nearest whole degree; coincident points give 0, as atan2(0, 0) does.
turfBearing(p, q) ==
  LET dx == q[1] - p[1]
      dy == q[2] - p[2]
      t == NearestDegree(Abs(dx), Abs(dy), 0, 90)
  IN  IF dx >= 0 THEN (IF dy >= 0 THEN t ELSE 180 - t)
      ELSE (IF dy >= 0 THEN -t ELSE t - 180)

\* The intersection of the segment a1-a2 with the segment b1-b2, both parallel
\* to an axis: the set holding the crossing point, or the empty set.  Parallel
\* segments give no point.
SegmentIntersect(a1, a2, b1, b2) ==
  LET Between(v, s, t) == (s <= v /\ v <= t) \/ (t <= v /\ v <= s)
  IN  IF a1[1] = a2[1] /\ b1[2] = b2[2]
      THEN IF Between(a1[1], b1[1], b2[1]) /\ Between(b1[2], a1[2], a2[2])
           THEN {<<a1[1], b1[2]>>} ELSE {}
      ELSE IF a1[2] = a2[2] /\ b1[1] = b2[1]
      THEN IF Between(a1[2], b1[2], b2[2]) /\ Between(b1[1], a1[1], a2[1])
           THEN {<<b1[1], a1[2]>>} ELSE {}
      ELSE {}

\* turf.lineIntersect(rayLine, building): the points where the ray crosses the ring.
turfLineIntersect(rayLine, b) ==
  UNION { SegmentIntersect(rayLine[1], rayLine[2], b.ring[i], b.ring[i + 1]) :
            i \in 1..(Len(b.ring) - 1) }

---------------------------------------------------------------------------
(* src/lib/sunBlockage.ts: angular helpers.                                *)

\* bearingToCompass with a single remainder, which keeps the sign of the bearing.
bearingToCompass_SingleRem(bearing) == JsRem(bearing, 360)

\* Convert turf bearing (-180..180) to compass (0..360).
bearingToCompass(bearing) == JsRem(JsRem(bearing, 360) + 360, 360)

\* angularDifference without the fold of differences above 180 degrees.
angularDifference_NoFold(a, b) == JsRem(Abs(a - b), 360)

\* Minimum angle between two compass bearings (0..180).
angularDifference(a, b) ==
  LET diff == JsRem(Abs(a - b), 360)
  IN  IF diff > 180 THEN 360 - diff ELSE diff

\* Variant: the boundary of the field of view counts as outside.
isSunInFieldOfView_Strict(sunAzimuth, direction, fov) ==
  2 * angularDifference(sunAzimuth, direction) < fov

\* angularDifference(sunAzimuth, pinDirection) <= fov / 2, without the division.
isSunInFieldOfView(sunAzimuth, direction, fov) ==
  2 * angularDifference(sunAzimuth, direction) <= fov

\* Default of the tolerance parameter of filterBuildingsBySunBearing, in degrees.
DefaultTolerance == 30

\* Keep only buildings roughly in the sun's direction from the pin.
filterBuildingsBySunBearing(buildings, pinLocation, sunAzimuth, tolerance) ==
  LET Keep(b) ==
        LET centroid == turfCentroid(b)
            bearing == bearingToCompass(turfBearing(pinLocation, centroid))
        IN  angularDifference(bearing, sunAzimuth) <= tolerance
  IN  SelectSeq(buildings, Keep)

---------------------------------------------------------------------------
(* src/lib/sunBlockage.ts: computeBlockage.                                *)

\* Length of the ray cast toward the sun, in metres (turf.destination(pin, 0.5, az)).
RayLengthM == 500

\* Math.round(num / den) for num >= 0: halves round up.
MathRound(num, den) == (2 * num + den) \div (2 * den)

\* The distances (model units) from the pin to the intersection points that
\* are at least 1 m away.
ValidDistances(pin, intersectionPts) ==
  { d \in { turfDistance(pin, pt) : pt \in intersectionPts } : d >= 1 * PerMetre }

\* nearestDistM after the inner loop, in model units; only used when
\* ValidDistances is not empty (otherwise nearestDistM stays Infinity).
NearestDist(pin, intersectionPts) ==
  LET ds == ValidDistances(pin, intersectionPts)
  IN  CHOOSE d \in ds : \A e \in ds : d <= e

\* Variant: a building exactly as high as the sun ray occludes.
HigherThanSunRay_NotStrict(buildingHeight, elevation, dist, altitude) ==
  buildingHeight * PerMetre * CosE4(altitude)
    >= elevation * PerMetre * CosE4(altitude) + dist * SinE4(altitude)

\* buildingHeight > userElevation + nearestDistM * Math.tan(altitudeRad), with
\* nearestDistM = dist / PerMetre and tan = sin / cos (cos > 0 for 0 < altitude < 90).
HigherThanSunRay(buildingHeight, elevation, dist, altitude) ==
  buildingHeight * PerMetre * CosE4(altitude)
    > elevation * PerMetre * CosE4(altitude) + dist * SinE4(altitude)

\* The loop over the candidates, from candidate i on: the first candidate of
\* positive height, with an intersection at 1 m or more, that stands higher than
\* the sun ray at its nearest such intersection ends the scan.
\* A candidate on which turf.lineIntersect throws is skipped (try / catch).
RECURSIVE ScanCandidates(_, _, _, _, _, _)
ScanCandidates(candidates, i, pin, rayLine, altitude, elevation) ==
  IF i > Len(candidates) THEN [isBlocked |-> FALSE]
  ELSE
    LET building == candidates[i]
        buildingHeight == building.height
        intersectionPts == turfLineIntersect(rayLine, building)
        Continue == ScanCandidates(candidates, i + 1, pin, rayLine, altitude, elevation)
    IN  IF buildingHeight <= 0 THEN Continue
        ELSE IF Throws(building, "lineIntersect") THEN Continue
        ELSE IF intersectionPts = {} THEN Continue
        ELSE IF ValidDistances(pin, intersectionPts) = {} THEN Continue
        ELSE
          LET nearestDist == NearestDist(pin, intersectionPts)
          IN  IF HigherThanSunRay(buildingHeight, elevation, nearestDist, altitude)
              THEN [isBlocked |-> TRUE,
                    blockingBuildingHeight |-> buildingHeight,
                    blockDistance |-> MathRound(nearestDist, PerMetre)]
              ELSE Continue

\* The ray from the pin toward the sun.
RayLine(loc, azimuth) ==
  << loc, turfDestination(loc, RayLengthM * PerMetre, azimuth) >>

\* Variant: the field-of-view check runs before the below-horizon check.
computeBlockage_FovFirst(loc, position, features, elevation, direction, fov) ==
  IF direction # None
     /\ ~isSunInFieldOfView(position.azimuth, direction[1], fov)
  THEN [isBlocked |-> TRUE]
  ELSE IF position.altitude <= 0 THEN [isBlocked |-> FALSE]
  ELSE
    LET candidates ==
          filterBuildingsBySunBearing(features, loc, position.azimuth, DefaultTolerance)
    IN  ScanCandidates(candidates, 1, loc, RayLine(loc, position.azimuth),
                       position.altitude, elevation)

computeBlockage(loc, position, features, elevation, direction, fov) ==
  IF position.altitude <= 0 THEN [isBlocked |-> FALSE]
  ELSE IF direction # None
          /\ ~isSunInFieldOfView(position.azimuth, direction[1], fov)
  THEN [isBlocked |-> TRUE]
  ELSE
    LET candidates ==
          filterBuildingsBySunBearing(features, loc, position.azimuth, DefaultTolerance)
    IN  ScanCandidates(candidates, 1, loc, RayLine(loc, position.azimuth),
                       position.altitude, elevation)

---------------------------------------------------------------------------
(* src/lib/sunBlockage.ts: day-level blockage map and sun windows.         *)
(* A Date is the number of minutes since local midnight.                   *)

\* Compute blockage status for every above-horizon arc point in a day: the loop
\* over the arc from sample i on, points being the samples pushed so far.
RECURSIVE DayScan(_, _, _, _, _, _, _, _)
DayScan(loc, a, i, features, elevation, direction, fov, points) ==
  IF i > Len(a) THEN points
  ELSE
    LET p == a[i]
    IN  IF p.altitude <= 0
        THEN DayScan(loc, a, i + 1, features, elevation, direction, fov, points)
        ELSE
          LET position == [azimuth |-> p.azimuth, altitude |-> p.altitude]
              result == computeBlockage(loc, position, features, elevation, direction, fov)
          IN  DayScan(loc, a, i + 1, features, elevation, direction, fov,
                      Append(points, [time |-> p.time,
                                      azimuth |-> p.azimuth,
                                      altitude |-> p.altitude,
                                      blocked |-> result.isBlocked]))

\* Variant: a sample exactly on the horizon is kept (altitude < 0 skipped only).
RECURSIVE DayScan_KeepHorizon(_, _, _, _, _, _, _, _)
DayScan_KeepHorizon(loc, a, i, features, elevation, direction, fov, points) ==
  IF i > Len(a) THEN points
  ELSE
    LET p == a[i]
    IN  IF p.altitude < 0
        THEN DayScan_KeepHorizon(loc, a, i + 1, features, elevation, direction, fov, points)
        ELSE
          LET position == [azimuth |-> p.azimuth, altitude |-> p.altitude]
              result == computeBlockage(loc, position, features, elevation, direction, fov)
          IN  DayScan_KeepHorizon(loc, a, i + 1, features, elevation, direction, fov,
                      Append(points, [time |-> p.time,
                                      azimuth |-> p.azimuth,
                                      altitude |-> p.altitude,
                                      blocked |-> result.isBlocked]))

computeDayBlockageMap_KeepHorizon(loc, a, features, elevation, direction, fov) ==
  DayScan_KeepHorizon(loc, a, 1, features, elevation, direction, fov, << >>)

computeDayBlockageMap(loc, a, features, elevation, direction, fov) ==
  DayScan(loc, a, 1, features, elevation, direction, fov, << >>)

\* The loop of computeSunWindows from point i on: windows are the windows pushed
\* so far, windowStart is None (null) or Some(time).  A Date object is truthy
\* whatever its value, so !windowStart tests for null only.
RECURSIVE WindowScan(_, _, _, _)
WindowScan(points, i, windows, windowStart) ==
  IF i > Len(points) THEN [windows |-> windows, windowStart |-> windowStart]
  ELSE
    LET p == points[i]
    IN  IF ~p.blocked
        THEN WindowScan(points, i + 1, windows,
                        IF windowStart = None THEN Some(p.time) ELSE windowStart)
        ELSE IF windowStart # None
        THEN WindowScan(points, i + 1,
                        Append(windows, [start |-> windowStart[1], end |-> p.time]),
                        None)
        ELSE WindowScan(points, i + 1, windows, windowStart)

\* Variant: the window still open when the scan ends is dropped.
computeSunWindows_NoTrailing(points) ==
  WindowScan(points, 1, << >>, None).windows

\* Variant: every unblocked point restarts the open window.
RECURSIVE WindowScan_Restart(_, _, _, _)
WindowScan_Restart(points, i, windows, windowStart) ==
  IF i > Len(points) THEN [windows |-> windows, windowStart |-> windowStart]
  ELSE
    LET p == points[i]
    IN  IF ~p.blocked
        THEN WindowScan_Restart(points, i + 1, windows, Some(p.time))
        ELSE IF windowStart # None
        THEN WindowScan_Restart(points, i + 1,
                        Append(windows, [start |-> windowStart[1], end |-> p.time]),
                        None)
        ELSE WindowScan_Restart(points, i + 1, windows, windowStart)

computeSunWindows_Restart(points) ==
  LET scan == WindowScan_Restart(points, 1, << >>, None)
  IN  IF scan.windowStart # None /\ Len(points) > 0
      THEN Append(scan.windows, [start |-> scan.windowStart[1],
                                 end |-> points[Len(points)].time])
      ELSE scan.windows

\* Variant: closing a window does not clear windowStart.
RECURSIVE WindowScan_NoReset(_, _, _, _)
WindowScan_NoReset(points, i, windows, windowStart) ==
  IF i > Len(points) THEN [windows |-> windows, windowStart |-> windowStart]
  ELSE
    LET p == points[i]
    IN  IF ~p.blocked
        THEN WindowScan_NoReset(points, i + 1, windows,
                        IF windowStart = None THEN Some(p.time) ELSE windowStart)
        ELSE IF windowStart # None
        THEN WindowScan_NoReset(points, i + 1,
                        Append(windows, [start |-> windowStart[1], end |-> p.time]),
                        windowStart)
        ELSE WindowScan_NoReset(points, i + 1, windows, windowStart)

computeSunWindows_NoReset(points) ==
  LET scan == WindowScan_NoReset(points, 1, << >>, None)
  IN  IF scan.windowStart # None /\ Len(points) > 0
      THEN Append(scan.windows, [start |-> scan.windowStart[1],
                                 end |-> points[Len(points)].time])
      ELSE scan.windows

\* Group consecutive unblocked points into visible time windows.
computeSunWindows(points) ==
  LET scan == WindowScan(points, 1, << >>, None)
  IN  IF scan.windowStart # None /\ Len(points) > 0
      THEN Append(scan.windows, [start |-> scan.windowStart[1],
                                 end |-> points[Len(points)].time])
      ELSE scan.windows

---------------------------------------------------------------------------
(* Input domains.                                                          *)

\* A rectangular footprint as a closed GeoJSON ring (first vertex repeated).
Rect(x1, y1, x2, y2) ==
  << <<x1, y1>>, <<x2, y1>>, <<x2, y2>>, <<x1, y2>>, <<x1, y1>> >>

\* Footprints around a pin at the origin, in model units (half metres).  No
\* edge lies on an axis through the pin, so the ray never runs along an edge.
SouthNear == Rect(-10, -40, 10, -20)    \* across the south ray, 10 m to 20 m away
SouthFar  == Rect(-10, -120, 10, -100)  \* across the south ray, 50 m to 60 m away
SouthWall == Rect(-10, -21, 10, -1)     \* south wall 0.5 m from the pin, far wall 10.5 m
OwnHouse  == Rect(-41, -3, 3, 41)       \* contains the pin, 1.5 m from its south and east walls
EastNear  == Rect(20, -10, 40, 10)      \* across the east ray, 10 m to 20 m away
LongSouth == Rect(-3, -40, 201, -20)    \* 102 m long, across the south ray at 10 m, centroid to the east
Footprints == {SouthNear, SouthFar, SouthWall, OwnHouse, EastNear, LongSouth}

Heights == {3, 10}
Catalogue == { [ring |-> f, height |-> h] : f \in Footprints, h \in Heights }

\* Every sequence of at most n features of the catalogue.
BuildingSets(n) == UNION { [1..k -> Catalogue] : k \in 0..n }

Pins == { <<0, 0>> }
Azimuths == {90, 180, 270}
Altitudes == {-10, 0, 5, 45}
SunPositions == { [azimuth |-> az, altitude |-> alt] : az \in Azimuths, alt \in Altitudes }
Elevations == {0, 3}
PinDirections == {None, Some(180), Some(135)}
Fovs == {180, 90}

---------------------------------------------------------------------------
(* Spec: one call of computeBlockage (useSunBlockage) on inputs drawn from *)
(* the domains above.                                                      *)

Init ==
  /\ location \in Pins
  /\ sunPosition \in SunPositions
  /\ arc = << >>
  /\ buildingData \in BuildingSets(MaxBuildings)
  /\ userElevation \in Elevations
  /\ pinDirection \in PinDirections
  /\ pinFov \in Fovs
  /\ sunBlockage = None
  /\ dayBlockageMap = None
  /\ sunWindows = None
  /\ HooksIdle
  /\ callArgs = None
  /\ callResult = None

\* useSunBlockage: the memo evaluates computeBlockage on the current inputs.
UseSunBlockage ==
  /\ sunBlockage = None
  /\ sunBlockage' = Some(computeBlockage(location, sunPosition, buildingData,
                                         userElevation, pinDirection, pinFov))
  /\ UNCHANGED <<location, sunPosition, arc, buildingData, userElevation,
                 pinDirection, pinFov, dayBlockageMap, sunWindows,
                 callArgs, callResult, hookVars>>

Next == UseSunBlockage

Spec == Init /\ [][Next]_vars

---------------------------------------------------------------------------
(* SpecDay: one evaluation of the memo of useDayBlockage on an arc drawn   *)
(* from ArcPositions.  Sample i of an arc is taken (i - 1) * StepMinutes   *)
(* after midnight.                                                         *)

ArcPositions ==
  { [azimuth |-> 90, altitude |-> 0], [azimuth |-> 180, altitude |-> 45],
    [azimuth |-> 180, altitude |-> 5], [azimuth |-> 270, altitude |-> 5],
    [azimuth |-> 270, altitude |-> -10] }

Arcs(n) ==
  UNION { { [i \in 1..k |-> [time |-> (i - 1) * StepMinutes,
                             azimuth |-> f[i].azimuth,
                             altitude |-> f[i].altitude]] :
              f \in [1..k -> ArcPositions] } : k \in 0..n }

DayFov == 180
DayPinDirections == {None, Some(135)}

\* The building sets of SpecDay: at most n of the 10 m features of the catalogue.
DayBuildingSets(n) ==
  UNION { [1..k -> { b \in Catalogue : b.height = 10 }] : k \in 0..n }

InitDay ==
  /\ location \in Pins
  /\ sunPosition = [azimuth |-> 180, altitude |-> 45]
  /\ arc \in Arcs(MaxArc)
  /\ buildingData \in DayBuildingSets(MaxDayBuildings)
  /\ userElevation \in Elevations
  /\ pinDirection \in DayPinDirections
  /\ pinFov = DayFov
  /\ sunBlockage = None
  /\ dayBlockageMap = None
  /\ sunWindows = None
  /\ HooksIdle
  /\ callArgs = None
  /\ callResult = None

\* useDayBlockage: the memo computes the day map, then the windows of that map.
UseDayBlockage ==
  /\ dayBlockageMap = None
  /\ LET map == computeDayBlockageMap(location, arc, buildingData, userElevation,
                                      pinDirection, pinFov)
     IN  /\ dayBlockageMap' = Some(map)
         /\ sunWindows' = Some(computeSunWindows(map))
  /\ UNCHANGED <<location, sunPosition, arc, buildingData, userElevation,
                 pinDirection, pinFov, sunBlockage, callArgs, callResult, hookVars>>

NextDay == UseDayBlockage

SpecDay == InitDay /\ [][NextDay]_vars

---------------------------------------------------------------------------
(* SpecWindows: computeSunWindows applied to a blockage map whose points   *)
(* are any subset of the first MaxSamples sample instants, in time order,  *)
(* each blocked or not.                                                    *)

SampleTimes == { (i - 1) * StepMinutes : i \in 1..MaxSamples }

\* The elements of a finite set of numbers as an increasing sequence.
RECURSIVE Ascending(_)
Ascending(S) ==
  IF S = {} THEN << >>
  ELSE LET m == CHOOSE x \in S : \A y \in S : x <= y
       IN  <<m>> \o Ascending(S \ {m})

BlockageMaps ==
  UNION { { [i \in 1..Cardinality(T) |->
               [time |-> Ascending(T)[i], azimuth |-> 180, altitude |-> 45,
                blocked |-> f[Ascending(T)[i]]]] :
              f \in [T -> BOOLEAN] } : T \in SUBSET SampleTimes }

InitWindows ==
  /\ location \in Pins
  /\ sunPosition = [azimuth |-> 180, altitude |-> 45]
  /\ arc = << >>
  /\ buildingData = << >>
  /\ userElevation = 0
  /\ pinDirection = None
  /\ pinFov = DayFov
  /\ sunBlockage = None
  /\ dayBlockageMap \in { Some(m) : m \in BlockageMaps }
  /\ sunWindows = None
  /\ HooksIdle
  /\ callArgs = None
  /\ callResult = None

CallComputeSunWindows ==
  /\ dayBlockageMap # None
  /\ sunWindows = None
  /\ sunWindows' = Some(computeSunWindows(dayBlockageMap[1]))
  /\ UNCHANGED <<location, sunPosition, arc, buildingData, userElevation,
                 pinDirection, pinFov, sunBlockage, dayBlockageMap,
                 callArgs, callResult, hookVars>>

NextWindows == CallComputeSunWindows

SpecWindows == InitWindows /\ [][NextWindows]_vars

---------------------------------------------------------------------------
(* Properties of computeBlockage, checked under Spec.                      *)

\* The value of the memo once it is computed.
Result == sunBlockage[1]

\* The sun is up and the field-of-view rule lets it through.
InView ==
  /\ sunPosition.altitude > 0
  /\ pinDirection # None =>
       2 * angularDifference(sunPosition.azimuth, pinDirection[1]) <= pinFov

\* The features that pass the bearing filter for the current inputs.
Candidates ==
  filterBuildingsBySunBearing(buildingData, location, sunPosition.azimuth,
                              DefaultTolerance)

\* The distances, in model units and at least 1 m, at which the sun ray
\* crosses the ring of b.
HitDistances(b) ==
  { d \in { turfDistance(location, pt) :
              pt \in turfLineIntersect(RayLine(location, sunPosition.azimuth), b) } :
      d >= PerMetre }

MinOf(S) == CHOOSE x \in S : \A y \in S : x <= y

\* b stands higher than the sun ray at distance d (model units):
\* height > elevation + (d / PerMetre) * tan(altitude), in 10^-4 units of cos.
StandsAbove(b, d) ==
  (b.height - userElevation) * PerMetre * CosE4(sunPosition.altitude)
    > d * SinE4(sunPosition.altitude)

\* C1: whenever the sun altitude is <= 0, computeBlockage returns isBlocked =
\* false with no blocking height and no distance, whatever the buildings, the
\* elevation, the facing direction and the field of view; the below-horizon
\* check comes before the field-of-view check.
C1_BelowHorizonNotBlocked ==
  (sunBlockage # None /\ sunPosition.altitude <= 0)
    => Result = [isBlocked |-> FALSE]

\* A computed state with the sun exactly on the horizon, outside the field of
\* view of an observer who has buildings around.
C1_Witness ==
  /\ sunBlockage # None
  /\ sunPosition.altitude = 0
  /\ pinDirection # None
  /\ 2 * angularDifference(sunPosition.azimuth, pinDirection[1]) > pinFov
  /\ buildingData # << >>

\* C2: with a single candidate building of positive height whose nearest
\* intersection at 1 m or more lies at distance d, the sun up and in view,
\* computeBlockage reports blocked exactly when height > elevation + d *
\* tan(altitude), and then reports that height and round(d).
C2_SingleBuildingThreshold ==
  (/\ sunBlockage # None
   /\ InView
   /\ Len(buildingData) = 1
   /\ Len(Candidates) = 1
   /\ buildingData[1].height > 0
   /\ HitDistances(buildingData[1]) # {})
    => LET b == buildingData[1]
           d == MinOf(HitDistances(b))
       IN  /\ Result.isBlocked <=> StandsAbove(b, d)
           /\ Result.isBlocked =>
                Result = [isBlocked |-> TRUE,
                          blockingBuildingHeight |-> b.height,
                          blockDistance |-> (2 * d + PerMetre) \div (2 * PerMetre)]

\* A computed state where the single candidate is exactly as high as the sun
\* ray at its nearest intersection (10 m high, 10 m away, sun at 45 degrees,
\* observer on the ground): the strict inequality leaves the sun visible.
C2_Witness ==
  /\ sunBlockage # None
  /\ InView
  /\ Len(buildingData) = 1
  /\ Len(Candidates) = 1
  /\ HitDistances(buildingData[1]) # {}
  /\ (buildingData[1].height - userElevation) * PerMetre * CosE4(sunPosition.altitude)
       = MinOf(HitDistances(buildingData[1])) * SinE4(sunPosition.altitude)
  /\ ~Result.isBlocked

\* The candidates (by index) that occlude the sun ray.
Occluders ==
  { i \in 1..Len(Candidates) :
      /\ Candidates[i].height > 0
      /\ HitDistances(Candidates[i]) # {}
      /\ StandsAbove(Candidates[i], MinOf(HitDistances(Candidates[i]))) }

\* C3: when several candidates occlude the sun ray, the reported height and
\* distance are those of the occluding building whose intersection is nearest
\* to the observer, whatever the order of the buildings in the input.
C3_NearestOccluderReported ==
  (sunBlockage # None /\ InView /\ Occluders # {})
    => \E i \in Occluders :
         /\ \A j \in Occluders :
              MinOf(HitDistances(Candidates[i])) <= MinOf(HitDistances(Candidates[j]))
         /\ Result = [isBlocked |-> TRUE,
                      blockingBuildingHeight |-> Candidates[i].height,
                      blockDistance |->
                        (2 * MinOf(HitDistances(Candidates[i])) + PerMetre)
                          \div (2 * PerMetre)]

\* C4: with a facing direction supplied and the sun up, a sun more than
\* fieldOfView / 2 away from the facing direction gives blocked = true with no
\* height and no distance, for every building set; a sun at most fieldOfView / 2
\* away (boundary included) gives exactly the verdict an observer with no
\* facing direction gets, so the rule alone never blocks.
C4_FieldOfViewRule ==
  (sunBlockage # None /\ pinDirection # None /\ sunPosition.altitude > 0)
    => IF 2 * angularDifference(sunPosition.azimuth, pinDirection[1]) > pinFov
       THEN Result = [isBlocked |-> TRUE]
       ELSE Result = computeBlockage(location, sunPosition, buildingData,
                                     userElevation, None, pinFov)

\* A computed state with the sun up and outside the field of view of an
\* observer who has no building around.
C4_Witness ==
  /\ sunBlockage # None
  /\ pinDirection # None
  /\ sunPosition.altitude > 0
  /\ 2 * angularDifference(sunPosition.azimuth, pinDirection[1]) > pinFov
  /\ buildingData = << >>
  /\ Result = [isBlocked |-> TRUE]

\* The scan of computeBlockage run over all the buildings, without the
\* bearing filter.
ScanAllBuildings ==
  IF sunPosition.altitude <= 0 THEN [isBlocked |-> FALSE]
  ELSE IF ~InView THEN [isBlocked |-> TRUE]
  ELSE ScanCandidates(buildingData, 1, location,
                      RayLine(location, sunPosition.azimuth),
                      sunPosition.altitude, userElevation)

\* C5: the bearing filter only prunes: computeBlockage returns the same blocked
\* verdict as the same scan run over all the buildings.
C5_FilterIsPruningOnly ==
  sunBlockage # None => Result.isBlocked = ScanAllBuildings.isBlocked

---------------------------------------------------------------------------
(* Properties of computeSunWindows, checked under SpecWindows.             *)

\* The points of the blockage map and the windows computed from it.
Points == dayBlockageMap[1]
Windows == sunWindows[1]

\* The indices at which a maximal run of consecutive unblocked points starts.
RunStarts ==
  { i \in 1..Len(Points) :
      ~Points[i].blocked /\ (i = 1 \/ Points[i - 1].blocked) }

\* The index of the last point of the run that starts at i.
RunEnd(i) ==
  CHOOSE j \in i..Len(Points) :
    /\ \A k \in i..j : ~Points[k].blocked
    /\ j = Len(Points) \/ Points[j + 1].blocked

\* The start of the k-th run, in the order of the map.
KthRunStart(k) ==
  CHOOSE i \in RunStarts : Cardinality({ h \in RunStarts : h < i }) = k - 1

\* C6: computeSunWindows emits exactly one window per maximal run of
\* consecutive unblocked points, in the order of the runs: it starts at the
\* time of the run's first point and ends at the time of the first blocked
\* point after the run, or at the time of the last point of the map when the
\* run reaches the end of the map.
C6_OneWindowPerRun ==
  (dayBlockageMap # None /\ sunWindows # None)
    => /\ Len(Windows) = Cardinality(RunStarts)
       /\ \A k \in 1..Len(Windows) :
            LET i == KthRunStart(k)
                j == RunEnd(i)
            IN  Windows[k] =
                  [start |-> Points[i].time,
                   end |-> IF j < Len(Points) THEN Points[j + 1].time
                           ELSE Points[Len(Points)].time]

\* A computed state whose map has a run closed by a blocked point and a later
\* run of two points or more that reaches the end of the map.
C6_Witness ==
  /\ dayBlockageMap # None /\ sunWindows # None
  /\ Len(Windows) = 2
  /\ Len(Points) >= 4
  /\ ~Points[Len(Points)].blocked
  /\ ~Points[Len(Points) - 1].blocked
  /\ Windows[2].end = Points[Len(Points)].time

\* C7: every window returned by computeSunWindows has start < end.
C7_WindowsHavePositiveLength ==
  (dayBlockageMap # None /\ sunWindows # None)
    => \A k \in 1..Len(Windows) : Windows[k].start < Windows[k].end

\* C8: an all-unblocked, non-empty map gives exactly one window from the first
\* to the last sample time; an all-blocked map and a map with no point give
\* the empty list.
C8_UniformMaps ==
  (dayBlockageMap # None /\ sunWindows # None)
    => /\ (Len(Points) > 0 /\ \A i \in 1..Len(Points) : ~Points[i].blocked)
            => Windows = << [start |-> Points[1].time,
                             end |-> Points[Len(Points)].time] >>
       /\ (\A i \in 1..Len(Points) : Points[i].blocked) => Windows = << >>

\* A computed state whose map has three unblocked points or more and no
\* blocked one.
C8_Witness ==
  /\ dayBlockageMap # None /\ sunWindows # None
  /\ Len(Points) >= 3
  /\ \A i \in 1..Len(Points) : ~Points[i].blocked
  /\ Len(Windows) = 1

\* C9: on a map in strictly increasing time order the windows are in
\* chronological order and do not overlap: a window ends no later than the next
\* one starts, and no blocked sample time lies strictly inside a window.
C9_WindowsOrderedDisjoint ==
  (dayBlockageMap # None /\ sunWindows # None)
    => /\ \A k \in 1..(Len(Windows) - 1) : Windows[k].end <= Windows[k + 1].start
       /\ \A k \in 1..Len(Windows) : \A i \in 1..Len(Points) :
            Points[i].blocked =>
              ~(Windows[k].start < Points[i].time /\ Points[i].time < Windows[k].end)

\* A computed state with two windows, the first closed by a blocked point.
C9_Witness ==
  /\ dayBlockageMap # None /\ sunWindows # None
  /\ Len(Windows) >= 2
  /\ \E i \in 1..Len(Points) : Points[i].blocked /\ Points[i].time = Windows[1].end
  /\ Windows[1].end < Windows[2].start

---------------------------------------------------------------------------
(* Properties of computeDayBlockageMap, checked under SpecDay.             *)

\* The indices of the arc samples above the horizon.
AboveHorizon == { i \in 1..Len(arc) : arc[i].altitude > 0 }

\* The k-th above-horizon sample, in the order of the arc.
KthAbove(k) ==
  CHOOSE i \in AboveHorizon : Cardinality({ h \in AboveHorizon : h < i }) = k - 1

\* C10: computeDayBlockageMap returns one point per arc sample with altitude >
\* 0 and none for the others, in the order of the arc; each point carries the
\* time, azimuth and altitude of its sample, and its blocked flag is the
\* isBlocked verdict of computeBlockage for that sample's position with the
\* same observer, buildings, elevation, facing and field of view.
C10_DayMapIsPointwise ==
  dayBlockageMap # None
    => /\ Len(Points) = Cardinality(AboveHorizon)
       /\ \A k \in 1..Len(Points) :
            LET p == arc[KthAbove(k)]
            IN  Points[k] =
                  [time |-> p.time, azimuth |-> p.azimuth, altitude |-> p.altitude,
                   blocked |->
                     computeBlockage(location,
                                     [azimuth |-> p.azimuth, altitude |-> p.altitude],
                                     buildingData, userElevation, pinDirection,
                                     pinFov).isBlocked]

\* A computed state whose arc starts with a sample on the horizon, followed by
\* a sample above it that a building blocks and a sample above it that is free.
C10_Witness ==
  /\ dayBlockageMap # None
  /\ Len(arc) = 3
  /\ arc[1].altitude = 0
  /\ buildingData # << >>
  /\ pinDirection = None
  /\ Len(Points) = 2
  /\ Points[1].blocked /\ ~Points[2].blocked
  /\ Points[2].time = 2 * StepMinutes

---------------------------------------------------------------------------
(* src/lib/overpass.ts (kept in src/unnamed/part_006): height parsing.     *)
(* A tag value is a string, modelled as a sequence of one-character        *)
(* strings; an absent tag is <<>> and a present one is <<value>>.  A       *)
(* number read by parseFloat is the exact fraction [num, den] with den a   *)
(* power of ten; NaN and null are <<>>.                                    *)

\* Longest value of a height tag.
MaxTagLen == 3
\* Longest value of a building:levels tag.
MaxLevelsLen == 2

Digits == {"0", "1", "2", "3", "4", "5", "6", "7", "8", "9"}

DigitValue(c) ==
  CASE c = "0" -> 0 [] c = "1" -> 1 [] c = "2" -> 2 [] c = "3" -> 3
    [] c = "4" -> 4 [] c = "5" -> 5 [] c = "6" -> 6 [] c = "7" -> 7
    [] c = "8" -> 8 [] c = "9" -> 9

RECURSIVE Pow10(_)
Pow10(k) == IF k = 0 THEN 1 ELSE 10 * Pow10(k - 1)

\* Number of consecutive decimal digits of raw from position i on.
RECURSIVE DigitRun(_, _)
DigitRun(raw, i) ==
  IF i <= Len(raw) /\ raw[i] \in Digits THEN 1 + DigitRun(raw, i + 1) ELSE 0

\* Value of the n decimal digits of raw that start at position i.
RECURSIVE DigitsValue(_, _, _)
DigitsValue(raw, i, n) ==
  IF n = 0 THEN 0
  ELSE 10 * DigitsValue(raw, i, n - 1) + DigitValue(raw[i + n - 1])

\* parseFloat: the longest prefix  [-] digits [. digits]  with at least one
\* digit, read as a decimal; NaN when there is no such prefix.  (Leading
\* white space, "+", exponents and "Infinity" are outside the tag alphabet.)
parseFloat(raw) ==
  LET neg    == Len(raw) > 0 /\ raw[1] = "-"
      start  == IF neg THEN 2 ELSE 1
      nInt   == DigitRun(raw, start)
      dotAt  == start + nInt
      hasDot == dotAt <= Len(raw) /\ raw[dotAt] = "."
      nFrac  == IF hasDot THEN DigitRun(raw, dotAt + 1) ELSE 0
      mag    == DigitsValue(raw, start, nInt) * Pow10(nFrac)
                  + DigitsValue(raw, dotAt + 1, nFrac)
  IN  IF nInt + nFrac = 0 THEN None
      ELSE Some([num |-> IF neg THEN -mag ELSE mag, den |-> Pow10(nFrac)])

\* parseInt(raw, 10): the longest prefix  [-] digits  with at least one digit;
\* NaN when there is no such prefix.
parseInt(raw) ==
  LET neg   == Len(raw) > 0 /\ raw[1] = "-"
      start == IF neg THEN 2 ELSE 1
      nInt  == DigitRun(raw, start)
      mag   == DigitsValue(raw, start, nInt)
  IN  IF nInt = 0 THEN None ELSE Some(IF neg THEN -mag ELSE mag)

\* raw is <<>> (undefined) or <<string>>; !raw holds for undefined and "".
parseMetricHeight(raw) ==
  IF raw = None \/ Len(raw[1]) = 0 THEN None ELSE parseFloat(raw[1])

parseBuildingLevels(raw) ==
  IF raw = None \/ Len(raw[1]) = 0 THEN None
  ELSE LET parsed == parseInt(raw[1])
       IN  IF parsed = None \/ parsed[1] <= 0 THEN None ELSE parsed

\* Math.ceil(num / den) for den > 0.
MathCeil(num, den) == -((-num) \div den)

\* resolveHeight with the two branches on levels taken before the branch on
\* measured.
resolveHeight_LevelsFirst(measured, levels) ==
  IF levels # None
    THEN [height |-> [num |-> levels[1] * 3, den |-> 1], levels |-> levels[1],
          heightSource |-> "estimated"]
  ELSE IF measured # None /\ measured[1].num > 0
    THEN [height |-> measured[1],
          levels |-> MathCeil(measured[1].num, 3 * measured[1].den),
          heightSource |-> "measured"]
  ELSE [height |-> [num |-> 3, den |-> 1], levels |-> 1,
        heightSource |-> "unknown"]

resolveHeight(measured, levels) ==
  IF measured # None /\ measured[1].num > 0
    THEN [height |-> measured[1],
          levels |-> IF levels # None THEN levels[1]
                     ELSE MathCeil(measured[1].num, 3 * measured[1].den),
          heightSource |-> "measured"]
  ELSE IF levels # None
    THEN [height |-> [num |-> levels[1] * 3, den |-> 1], levels |-> levels[1],
          heightSource |-> "estimated"]
  ELSE [height |-> [num |-> 3, den |-> 1], levels |-> 1,
        heightSource |-> "unknown"]

\* tags.levels stands for tags["building:levels"].
extractBuildingHeight(tags) ==
  resolveHeight(parseMetricHeight(tags.height), parseBuildingLevels(tags.levels))

---------------------------------------------------------------------------
(* SpecHeight: one call of extractBuildingHeight on a tags dictionary      *)
(* whose height and building:levels entries are absent or any string over  *)
(* TagChars of bounded length.                                             *)

TagChars == {"0", "7", "-", ".", "m"}

RECURSIVE Strings(_)
Strings(n) ==
  IF n = 0 THEN { << >> }
  ELSE LET shorter == Strings(n - 1)
       IN  shorter \cup { Append(w, c) : w \in shorter, c \in TagChars }

TagValues(n) == {None} \cup { Some(w) : w \in Strings(n) }

\* The variables of the application hooks, at rest while a function is
\* called directly.
AppIdle ==
  /\ location \in Pins
  /\ sunPosition = [azimuth |-> 180, altitude |-> 45]
  /\ arc = << >>
  /\ buildingData = << >>
  /\ userElevation = 0
  /\ pinDirection = None
  /\ pinFov = DayFov
  /\ sunBlockage = None
  /\ dayBlockageMap = None
  /\ sunWindows = None

appVars == <<location, sunPosition, arc, buildingData, userElevation,
             pinDirection, pinFov, sunBlockage, dayBlockageMap, sunWindows>>

InitHeight ==
  /\ AppIdle
  /\ HooksIdle
  /\ callArgs \in { Some([tags |-> [height |-> h, levels |-> l]]) :
                      h \in TagValues(MaxTagLen), l \in TagValues(MaxLevelsLen) }
  /\ callResult = None

CallExtractBuildingHeight ==
  /\ callResult = None
  /\ callResult' = Some(extractBuildingHeight(callArgs[1].tags))
  /\ UNCHANGED <<appVars, callArgs, hookVars>>

NextHeight == CallExtractBuildingHeight

SpecHeight == InitHeight /\ [][NextHeight]_vars

---------------------------------------------------------------------------
(* Properties of extractBuildingHeight, checked under SpecHeight.          *)

HeightTag == callArgs[1].tags.height
LevelsTag == callArgs[1].tags.levels
Measured == parseMetricHeight(HeightTag)
LevelHint == parseBuildingLevels(LevelsTag)
MeasuredPositive == Measured # None /\ Measured[1].num > 0

\* The least whole number of 3 m storeys that reach the height h.
StoreysFor(h) == CHOOSE n \in 0..h.num :
                   /\ 3 * n * h.den >= h.num
                   /\ \A k \in 0..(n - 1) : 3 * k * h.den < h.num

\* C11: the height of a building is resolved in strict order.  A height tag
\* that parses to a positive number gives that height, source "measured" and
\* the level hint if there is one, else ceil(height / 3) levels; otherwise a
\* level hint gives 3 m per level, source "estimated"; otherwise the result
\* is 3 m, 1 level, source "unknown".  Always height > 0 and levels >= 1.
C11_HeightPolicy ==
  callResult # None =>
    LET r == callResult[1]
    IN  /\ r.height.num > 0 /\ r.height.den > 0
        /\ r.levels >= 1
        /\ IF MeasuredPositive
             THEN /\ r.heightSource = "measured"
                  /\ r.height = Measured[1]
                  /\ r.levels = IF LevelHint # None THEN LevelHint[1]
                                ELSE StoreysFor(Measured[1])
           ELSE IF LevelHint # None
             THEN /\ r.heightSource = "estimated"
                  /\ r.height = [num |-> 3 * LevelHint[1], den |-> 1]
                  /\ r.levels = LevelHint[1]
           ELSE r = [height |-> [num |-> 3, den |-> 1], levels |-> 1,
                     heightSource |-> "unknown"]

\* A fractional measured height without a level hint, resolved to 3 storeys.
C11_Witness ==
  /\ callResult # None
  /\ MeasuredPositive
  /\ Measured[1].den > 1
  /\ LevelHint = None
  /\ callResult[1].levels = 3

---------------------------------------------------------------------------
(* src/lib/overpass.ts (kept in src/unnamed/part_006): ring construction   *)
(* and conversion of an Overpass response.  A geometry node is a record    *)
(* [lat, lon]; a ring position is <<lon, lat>>.                            *)

\* Longest geometry handed to buildPolygonRing directly.
MaxGeometry == 5
\* Largest number of elements of an Overpass response.
MaxElements == 2

\* buildPolygonRing closing the ring only when both coordinates of the first
\* and last position differ.
buildPolygonRing_BothDiffer(geometry) ==
  IF Len(geometry) < 4 THEN None
  ELSE LET ring   == [i \in 1..Len(geometry) |->
                        <<geometry[i].lon, geometry[i].lat>>]
           first  == ring[1]
           last   == ring[Len(ring)]
           closed == IF first[1] # last[1] /\ first[2] # last[2]
                       THEN Append(ring, <<first[1], first[2]>>)
                       ELSE ring
       IN  IF Len(closed) >= 4 THEN Some(closed) ELSE None

\* The result is <<>> (null) or <<ring>>.
buildPolygonRing(geometry) ==
  IF Len(geometry) < 4 THEN None
  ELSE LET ring   == [i \in 1..Len(geometry) |->
                        <<geometry[i].lon, geometry[i].lat>>]
           first  == ring[1]
           last   == ring[Len(ring)]
           closed == IF first[1] # last[1] \/ first[2] # last[2]
                       THEN Append(ring, <<first[1], first[2]>>)
                       ELSE ring
       IN  IF Len(closed) >= 4 THEN Some(closed) ELSE None

\* !el.tags?.building: the way has no tags, no building tag, or an empty one.
NoBuildingTag(el) ==
  \/ el.tags = None
  \/ el.tags[1].building = None
  \/ Len(el.tags[1].building[1]) = 0

\* The loop of overpassToGeoJSON from element i on.
RECURSIVE ConvertElements(_, _, _)
ConvertElements(elements, i, features) ==
  IF i > Len(elements) THEN features
  ELSE LET el == elements[i]
       IN  IF NoBuildingTag(el) THEN ConvertElements(elements, i + 1, features)
           ELSE LET ring == buildPolygonRing(el.geometry)
                IN  IF ring = None
                      THEN ConvertElements(elements, i + 1, features)
                    ELSE LET parsed == extractBuildingHeight(el.tags[1])
                         IN  ConvertElements(elements, i + 1,
                               Append(features,
                                 [id           |-> el.id,
                                  height       |-> parsed.height,
                                  levels       |-> parsed.levels,
                                  heightSource |-> parsed.heightSource,
                                  name         |-> el.tags[1].name,
                                  ring         |-> ring[1]]))

overpassToGeoJSON(data) == ConvertElements(data.elements, 1, << >>)

---------------------------------------------------------------------------
(* SpecOverpass: one call of buildPolygonRing on any geometry of at most   *)
(* MaxGeometry nodes, or one call of overpassToGeoJSON on a response of at *)
(* most MaxElements ways.                                                  *)

NodeA == [lat |-> 1, lon |-> 2]
NodeB == [lat |-> 2, lon |-> 1]
NodeC == [lat |-> 1, lon |-> 1]

GeometryNodes == {NodeA, NodeB, NodeC}

RECURSIVE Geometries(_)
Geometries(n) ==
  IF n = 0 THEN { << >> }
  ELSE LET shorter == Geometries(n - 1)
       IN  shorter \cup { Append(g, p) : g \in shorter, p \in GeometryNodes }

\* Geometries of the ways of a response: too short, closed, and open.
WayGeometries == { <<NodeA, NodeB, NodeA>>,
                   <<NodeA, NodeB, NodeC, NodeA>>,
                   <<NodeA, NodeB, NodeB, NodeC>> }

WayTags ==
  { None,
    Some([building |-> None, height |-> Some(<<"7">>), levels |-> None,
          name |-> None]),
    Some([building |-> Some(<<"y", "e", "s">>), height |-> Some(<<"7", ".", "5">>),
          levels |-> None, name |-> Some(<<"H">>)]),
    Some([building |-> Some(<<"y", "e", "s">>), height |-> None,
          levels |-> Some(<<"2">>), name |-> None]) }

\* Responses of at most n ways; way i has id i.
Responses(n) ==
  UNION { { [elements |-> [i \in 1..k |-> [id |-> i, tags |-> t[i],
                                           geometry |-> g[i]]]] :
              t \in [1..k -> WayTags], g \in [1..k -> WayGeometries] } :
          k \in 0..n }

InitOverpass ==
  /\ AppIdle
  /\ HooksIdle
  /\ callArgs \in
       { Some([fn |-> "buildPolygonRing", geometry |-> g]) :
           g \in Geometries(MaxGeometry) }
       \cup { Some([fn |-> "overpassToGeoJSON", data |-> d]) :
                d \in Responses(MaxElements) }
  /\ callResult = None

CallBuildPolygonRing ==
  /\ callResult = None
  /\ callArgs[1].fn = "buildPolygonRing"
  /\ callResult' = Some(buildPolygonRing(callArgs[1].geometry))
  /\ UNCHANGED <<appVars, callArgs, hookVars>>

CallOverpassToGeoJSON ==
  /\ callResult = None
  /\ callArgs[1].fn = "overpassToGeoJSON"
  /\ callResult' = Some(overpassToGeoJSON(callArgs[1].data))
  /\ UNCHANGED <<appVars, callArgs, hookVars>>

NextOverpass == CallBuildPolygonRing \/ CallOverpassToGeoJSON

SpecOverpass == InitOverpass /\ [][NextOverpass]_vars

---------------------------------------------------------------------------
(* Properties of buildPolygonRing and overpassToGeoJSON, checked under     *)
(* SpecOverpass.                                                           *)

RingReturned == callResult # None /\ callArgs[1].fn = "buildPolygonRing"
FeaturesReturned == callResult # None /\ callArgs[1].fn = "overpassToGeoJSON"

\* The position of a geometry node.
Position(p) == <<p.lon, p.lat>>

\* C12: buildPolygonRing returns null for fewer than 4 points; otherwise the
\* points in order as [lon, lat] positions, with a copy of the first position
\* appended exactly when the last position differs from it.  Every feature
\* emitted by overpassToGeoJSON has a closed ring of at least 4 positions.
C12_RingsAreClosed ==
  /\ RingReturned =>
       LET g == callArgs[1].geometry
           r == callResult[1]
       IN  IF Len(g) < 4 THEN r = None
           ELSE /\ r # None
                /\ \A i \in 1..Len(g) : r[1][i] = Position(g[i])
                /\ IF Position(g[Len(g)]) # Position(g[1])
                     THEN /\ Len(r[1]) = Len(g) + 1
                          /\ r[1][Len(g) + 1] = Position(g[1])
                     ELSE Len(r[1]) = Len(g)
  /\ FeaturesReturned =>
       \A k \in 1..Len(callResult[1]) :
         LET ring == callResult[1][k].ring
         IN  Len(ring) >= 4 /\ ring[1] = ring[Len(ring)]

\* A response with a way that is too short and skipped, and an open way whose
\* feature carries the closing position.
C12_Witness ==
  /\ FeaturesReturned
  /\ Len(callArgs[1].data.elements) = 2
  /\ Len(callResult[1]) = 1
  /\ \E i \in 1..2 :
       LET el == callArgs[1].data.elements[i]
       IN  /\ el.id = callResult[1][1].id
           /\ Len(callResult[1][1].ring) = Len(el.geometry) + 1
  /\ \E i \in 1..2 :
       LET el == callArgs[1].data.elements[i]
       IN  ~NoBuildingTag(el) /\ Len(el.geometry) < 4

---------------------------------------------------------------------------
(* src/types/sun.ts (kept in src/unnamed/part_000): deriveSunVisibility.   *)
(* sunData and sunBlockage are <<>> (null) or <<value>>; of SunData only   *)
(* the position is read.                                                   *)

\* deriveSunVisibility testing the blockage verdict before the horizon.
deriveSunVisibility_BlockedFirst(sunData, blockage) ==
  IF blockage # None /\ blockage[1].isBlocked THEN "blocked"
  ELSE IF sunData = None \/ sunData[1].position.altitude <= 0 THEN "below"
  ELSE "visible"

deriveSunVisibility(sunData, blockage) ==
  IF sunData = None \/ sunData[1].position.altitude <= 0 THEN "below"
  ELSE IF blockage # None /\ blockage[1].isBlocked THEN "blocked"
  ELSE "visible"

---------------------------------------------------------------------------
(* SpecVisibility: one call of deriveSunVisibility on any sun data and any *)
(* blockage verdict, whether or not computeBlockage would produce that     *)
(* verdict for that sun.                                                   *)

SunDataValues ==
  {None} \cup { Some([position |-> p]) : p \in SunPositions }

Verdicts ==
  { None,
    Some([isBlocked |-> FALSE]),
    Some([isBlocked |-> TRUE]) }
  \cup { Some([isBlocked |-> TRUE, blockingBuildingHeight |-> h,
               blockDistance |-> d]) : h \in Heights, d \in {10, 50} }

InitVisibility ==
  /\ AppIdle
  /\ HooksIdle
  /\ callArgs \in { Some([sunData |-> sd, sunBlockage |-> v]) :
                      sd \in SunDataValues, v \in Verdicts }
  /\ callResult = None

CallDeriveSunVisibility ==
  /\ callResult = None
  /\ callResult' = Some(deriveSunVisibility(callArgs[1].sunData,
                                            callArgs[1].sunBlockage))
  /\ UNCHANGED <<appVars, callArgs, hookVars>>

NextVisibility == CallDeriveSunVisibility

SpecVisibility == InitVisibility /\ [][NextVisibility]_vars

---------------------------------------------------------------------------
(* Properties of deriveSunVisibility, checked under SpecVisibility.        *)

SunUp == callArgs[1].sunData # None
           /\ callArgs[1].sunData[1].position.altitude > 0
VerdictBlocked == callArgs[1].sunBlockage # None
                    /\ callArgs[1].sunBlockage[1].isBlocked

\* C13: deriveSunVisibility is a total three-way classification: "below"
\* exactly when there is no sun data or altitude <= 0, "blocked" exactly when
\* altitude > 0 and the verdict is blocked, "visible" exactly when altitude > 0
\* and the verdict is absent or not blocked.  A blocked verdict never turns a
\* sun below the horizon into "blocked".
C13_ThreeWayVisibility ==
  callResult # None =>
    LET r == callResult[1]
    IN  /\ r \in {"below", "blocked", "visible"}
        /\ (r = "below") <=> ~SunUp
        /\ (r = "blocked") <=> (SunUp /\ VerdictBlocked)
        /\ (r = "visible") <=> (SunUp /\ ~VerdictBlocked)

\* A sun at or below the horizon together with a blocked verdict.
C13_Witness ==
  /\ callResult # None
  /\ callArgs[1].sunData # None
  /\ ~SunUp
  /\ VerdictBlocked
  /\ callResult[1] = "below"

---------------------------------------------------------------------------
(* src/lib/shadows.ts: computeShadows.  A shadow length is the exact       *)
(* fraction [num, den] of metres, height * cos(altitude) over              *)
(* sin(altitude); altitudes lie below 90 degrees, where tan is positive.   *)

\* Largest number of features handed to computeShadows.
MaxShadowBuildings == 2
\* The cap on the length of a shadow, in metres.
ShadowCapM == 2000

\* turf.transformTranslate(building, distance, bearing): every position of the
\* footprint moved by distance (model units) along the bearing.
turfTransformTranslate(b, dist, bearing) ==
  [i \in 1..Len(b.ring) |-> turfDestination(b.ring[i], dist, bearing)]

\* The loop of computeShadows from building i on, without the cap at 2 km.
RECURSIVE ShadowScan_NoCap(_, _, _, _, _)
ShadowScan_NoCap(buildings, i, sunAzimuth, sunAltitude, features) ==
  IF i > Len(buildings) THEN features
  ELSE
    LET building == buildings[i]
        height == building.height
        shadowLength == [num |-> height * CosE4(sunAltitude),
                         den |-> SinE4(sunAltitude)]
        shadowBearing == JsRem(sunAzimuth + 180, 360)
        Continue(fs) == ShadowScan_NoCap(buildings, i + 1, sunAzimuth, sunAltitude, fs)
    IN  IF height <= 0 THEN Continue(features)
        ELSE IF shadowLength.num <= 0 THEN Continue(features)
        ELSE IF Throws(building, "transformTranslate") THEN Continue(features)
        ELSE Continue(Append(features,
               [buildingId   |-> building.id,
                shadowLength |-> shadowLength,
                geometry     |-> turfTransformTranslate(building,
                                   (shadowLength.num * PerMetre) \div shadowLength.den,
                                   shadowBearing)]))

computeShadows_NoCap(buildings, sunAzimuth, sunAltitude) ==
  IF sunAltitude <= 0 THEN << >>
  ELSE ShadowScan_NoCap(buildings, 1, sunAzimuth, sunAltitude, << >>)

\* The loop of computeShadows from building i on, features being the shadows
\* pushed so far.
RECURSIVE ShadowScan(_, _, _, _, _)
ShadowScan(buildings, i, sunAzimuth, sunAltitude, features) ==
  IF i > Len(buildings) THEN features
  ELSE
    LET building == buildings[i]
        height == building.height
        shadowLength == [num |-> height * CosE4(sunAltitude),
                         den |-> SinE4(sunAltitude)]
        shadowBearing == JsRem(sunAzimuth + 180, 360)
        Continue(fs) == ShadowScan(buildings, i + 1, sunAzimuth, sunAltitude, fs)
    IN  IF height <= 0 THEN Continue(features)
        ELSE IF shadowLength.num <= 0
                \/ shadowLength.num > ShadowCapM * shadowLength.den
          THEN Continue(features)
        ELSE IF Throws(building, "transformTranslate") THEN Continue(features)
        ELSE Continue(Append(features,
               [buildingId   |-> building.id,
                shadowLength |-> shadowLength,
                geometry     |-> turfTransformTranslate(building,
                                   (shadowLength.num * PerMetre) \div shadowLength.den,
                                   shadowBearing)]))

computeShadows(buildings, sunAzimuth, sunAltitude) ==
  IF sunAltitude <= 0 THEN << >>
  ELSE ShadowScan(buildings, 1, sunAzimuth, sunAltitude, << >>)

---------------------------------------------------------------------------
(* SpecShadows: one call of computeShadows on at most MaxShadowBuildings   *)
(* features of sound geometry; feature i has id i.                         *)

ShadowHeights == {0, 3, 100}
ShadowAltitudes == {-10, 0, 1, 5, 45}
ShadowFootprints == {SouthNear, EastNear}

ShadowBuildingSets(n) ==
  UNION { { [i \in 1..k |-> [id |-> i, ring |-> f[i], height |-> h[i]]] :
              f \in [1..k -> ShadowFootprints], h \in [1..k -> ShadowHeights] } :
          k \in 0..n }

InitShadows ==
  /\ AppIdle
  /\ HooksIdle
  /\ callArgs \in { Some([buildings |-> bs, sunAzimuth |-> az, sunAltitude |-> alt]) :
                      bs \in ShadowBuildingSets(MaxShadowBuildings),
                      az \in Azimuths, alt \in ShadowAltitudes }
  /\ callResult = None

CallComputeShadows ==
  /\ callResult = None
  /\ callResult' = Some(computeShadows(callArgs[1].buildings,
                                       callArgs[1].sunAzimuth,
                                       callArgs[1].sunAltitude))
  /\ UNCHANGED <<appVars, callArgs, hookVars>>

NextShadows == CallComputeShadows

SpecShadows == InitShadows /\ [][NextShadows]_vars

---------------------------------------------------------------------------
(* Properties of computeShadows, checked under SpecShadows.                *)

\* The building casts a shadow of positive length of at most 2000 m:
\* 0 < height / tan(altitude) <= 2000, for a sun above the horizon.
CastsShadow(b, altitude) ==
  /\ b.height > 0
  /\ b.height * CosE4(altitude) > 0
  /\ b.height * CosE4(altitude) <= ShadowCapM * SinE4(altitude)

\* C14: computeShadows returns an empty collection when altitude <= 0;
\* otherwise it emits, in input order, exactly one shadow for each building of
\* positive height with 0 < height / tan(altitude) <= 2000 m and none for any
\* other building; each shadow carries the id of its building and that length.
C14_ShadowPerCastingBuilding ==
  callResult # None =>
    LET shadows == callResult[1]
        alt == callArgs[1].sunAltitude
        Casts(b) == CastsShadow(b, alt)
        casting == SelectSeq(callArgs[1].buildings, Casts)
    IN  IF alt <= 0 THEN shadows = << >>
        ELSE /\ Len(shadows) = Len(casting)
             /\ \A k \in 1..Len(casting) :
                  /\ shadows[k].buildingId = casting[k].id
                  /\ shadows[k].shadowLength
                       = [num |-> casting[k].height * CosE4(alt), den |-> SinE4(alt)]

\* A low sun over a 100 m building, whose shadow passes the cap, and a 3 m
\* building behind it in the input, whose shadow is emitted.
C14_Witness ==
  /\ callResult # None
  /\ callArgs[1].sunAltitude = 1
  /\ Len(callArgs[1].buildings) = 2
  /\ callArgs[1].buildings[1].height = 100
  /\ callArgs[1].buildings[2].height = 3
  /\ Len(callResult[1]) = 1
  /\ callResult[1][1].buildingId = 2

---------------------------------------------------------------------------
(* Exceptions of the geometry library.  turf.lineIntersect in              *)
(* computeBlockage and turf.transformTranslate in computeShadows run       *)
(* inside try / catch; turf.centroid and turf.bearing in                   *)
(* filterBuildingsBySunBearing do not, so an exception there leaves        *)
(* computeBlockage, and the loop of computeDayBlockageMap that called it.  *)
(* The outcome of a call is [threw |-> TRUE] or the returned value.        *)

\* Largest number of features of a building set with failing geometry.
MaxFaultBuildings == 2

Thrown == [threw |-> TRUE]
Returned(v) == [threw |-> FALSE, value |-> v]

\* buildings.filter(...) evaluates turf.centroid on every building.
filterBuildingsBySunBearingThrows(buildings) ==
  \E i \in 1..Len(buildings) : Throws(buildings[i], "centroid")

\* computeBlockage reaches the filter when neither early return is taken.
computeBlockageThrows(position, features, direction, fov) ==
  /\ position.altitude > 0
  /\ direction = None \/ isSunInFieldOfView(position.azimuth, direction[1], fov)
  /\ filterBuildingsBySunBearingThrows(features)

computeBlockageOutcome(loc, position, features, elevation, direction, fov) ==
  IF computeBlockageThrows(position, features, direction, fov) THEN Thrown
  ELSE Returned(computeBlockage(loc, position, features, elevation, direction, fov))

\* computeDayBlockageMap calls computeBlockage for every sample above the horizon.
computeDayBlockageMapThrows(a, features, direction, fov) ==
  \E i \in 1..Len(a) :
    /\ a[i].altitude > 0
    /\ computeBlockageThrows([azimuth |-> a[i].azimuth, altitude |-> a[i].altitude],
                             features, direction, fov)

computeDayBlockageMapOutcome(loc, a, features, elevation, direction, fov) ==
  IF computeDayBlockageMapThrows(a, features, direction, fov) THEN Thrown
  ELSE Returned(computeDayBlockageMap(loc, a, features, elevation, direction, fov))

\* Both turf calls of computeShadows sit inside its try / catch.
computeShadowsOutcome(buildings, sunAzimuth, sunAltitude) ==
  Returned(computeShadows(buildings, sunAzimuth, sunAltitude))

---------------------------------------------------------------------------
(* SpecFaults: one call of computeBlockage, computeDayBlockageMap or       *)
(* computeShadows on a building set in which any feature may make one of   *)
(* the library's operations fail.                                          *)

FaultMarks == {"none", "centroid", "lineIntersect", "transformTranslate"}
FaultHeight == 10

FaultBuildingSets(n) ==
  UNION { { [i \in 1..k |-> [id |-> i, ring |-> f[i], height |-> FaultHeight,
                             fails |-> m[i]]] :
              f \in [1..k -> ShadowFootprints], m \in [1..k -> FaultMarks] } :
          k \in 0..n }

\* A morning sample on the horizon, then the sun in the south and in the west.
FaultArc == << [time |-> 0, azimuth |-> 90, altitude |-> 0],
               [time |-> StepMinutes, azimuth |-> 180, altitude |-> 5],
               [time |-> 2 * StepMinutes, azimuth |-> 270, altitude |-> 5] >>

InitFaults ==
  /\ AppIdle
  /\ HooksIdle
  /\ callArgs \in
       { Some([fn |-> "computeBlockage", features |-> bs, position |-> p,
               direction |-> d]) :
           bs \in FaultBuildingSets(MaxFaultBuildings), p \in SunPositions,
           d \in DayPinDirections }
       \cup { Some([fn |-> "computeDayBlockageMap", features |-> bs, arc |-> FaultArc,
                    direction |-> d]) :
                bs \in FaultBuildingSets(MaxFaultBuildings), d \in DayPinDirections }
       \cup { Some([fn |-> "computeShadows", features |-> bs, position |-> p]) :
                bs \in FaultBuildingSets(MaxFaultBuildings), p \in SunPositions }
  /\ callResult = None

CallComputeBlockage ==
  /\ callResult = None
  /\ callArgs[1].fn = "computeBlockage"
  /\ callResult' = Some(computeBlockageOutcome(location, callArgs[1].position,
                          callArgs[1].features, userElevation,
                          callArgs[1].direction, DayFov))
  /\ UNCHANGED <<appVars, callArgs, hookVars>>

CallComputeDayBlockageMap ==
  /\ callResult = None
  /\ callArgs[1].fn = "computeDayBlockageMap"
  /\ callResult' = Some(computeDayBlockageMapOutcome(location, callArgs[1].arc,
                          callArgs[1].features, userElevation,
                          callArgs[1].direction, DayFov))
  /\ UNCHANGED <<appVars, callArgs, hookVars>>

CallComputeShadowsFaulty ==
  /\ callResult = None
  /\ callArgs[1].fn = "computeShadows"
  /\ callResult' = Some(computeShadowsOutcome(callArgs[1].features,
                          callArgs[1].position.azimuth,
                          callArgs[1].position.altitude))
  /\ UNCHANGED <<appVars, callArgs, hookVars>>

NextFaults ==
  CallComputeBlockage \/ CallComputeDayBlockageMap \/ CallComputeShadowsFaulty

SpecFaults == InitFaults /\ [][NextFaults]_vars

---------------------------------------------------------------------------
(* Properties of the recovery from geometric failures, checked under       *)
(* SpecFaults.                                                             *)

\* The buildings on which none of the given operations fails, in input order.
Remaining(features, operations) ==
  LET Sound(b) == b.fails \notin operations
  IN  SelectSeq(features, Sound)

\* C15: a geometric failure on one building is recovered locally.  When an
\* operation of the scan fails for a building, computeBlockage and
\* computeShadows skip only that building and return normally the result that
\* the remaining buildings determine; neither the scan nor the day scan built
\* on it is aborted.
C15_FailuresRecoveredLocally ==
  callResult # None =>
    LET c == callArgs[1]
        r == callResult[1]
    IN  /\ ~r.threw
        /\ c.fn = "computeBlockage" =>
             r.value = computeBlockage(location, c.position,
                         Remaining(c.features, {"centroid", "lineIntersect"}),
                         userElevation, c.direction, DayFov)
        /\ c.fn = "computeDayBlockageMap" =>
             r.value = computeDayBlockageMap(location, c.arc,
                         Remaining(c.features, {"centroid", "lineIntersect"}),
                         userElevation, c.direction, DayFov)
        /\ c.fn = "computeShadows" =>
             r.value = computeShadows(Remaining(c.features, {"transformTranslate"}),
                         c.position.azimuth, c.position.altitude)

---------------------------------------------------------------------------
(* SpecAngles: the angular helpers of src/lib/sunBlockage.ts called on     *)
(* whole bearings from -MaxBearing to MaxBearing degrees.                  *)
(* angularDifference is called with its arguments in both orders and       *)
(* bearingToCompass is applied to the bearing and to its own result.       *)

\* Largest magnitude of a bearing handed to the helpers.
MaxBearing == 800

Bearings == (-MaxBearing)..MaxBearing

\* First arguments of angularDifference: every 50th degree.
CoarseBearings == { b \in Bearings : b % 50 = 0 }

InitAngles ==
  /\ AppIdle
  /\ HooksIdle
  /\ callArgs \in
       { Some([fn |-> "angularDifference", a |-> a, b |-> b]) :
           a \in CoarseBearings, b \in Bearings }
       \cup { Some([fn |-> "bearingToCompass", bearing |-> b]) : b \in Bearings }
  /\ callResult = None

CallAngularDifference ==
  /\ callResult = None
  /\ callArgs[1].fn = "angularDifference"
  /\ callResult' = Some([forward  |-> angularDifference(callArgs[1].a, callArgs[1].b),
                         backward |-> angularDifference(callArgs[1].b, callArgs[1].a)])
  /\ UNCHANGED <<appVars, callArgs, hookVars>>

CallBearingToCompass ==
  /\ callResult = None
  /\ callArgs[1].fn = "bearingToCompass"
  /\ LET once == bearingToCompass(callArgs[1].bearing)
     IN  callResult' = Some([once |-> once, twice |-> bearingToCompass(once)])
  /\ UNCHANGED <<appVars, callArgs, hookVars>>

NextAngles == CallAngularDifference \/ CallBearingToCompass

SpecAngles == InitAngles /\ [][NextAngles]_vars

---------------------------------------------------------------------------
(* Properties of the angular helpers, checked under SpecAngles.            *)

DifferenceReturned == callResult # None /\ callArgs[1].fn = "angularDifference"
CompassReturned == callResult # None /\ callArgs[1].fn = "bearingToCompass"

\* x and y are the same direction: they differ by a whole number of turns.
Congruent(x, y) == (x - y) % 360 = 0

\* C16: angularDifference is symmetric, is 0 on equal arguments, wraps around
\* north (350 against 10 is 20), and lies in [0, 180] for all bearings,
\* negative ones and ones above 360 included.
C16_AngularDifference ==
  DifferenceReturned =>
    LET a == callArgs[1].a
        b == callArgs[1].b
        r == callResult[1].forward
    IN  /\ r = callResult[1].backward
        /\ r >= 0 /\ r <= 180
        /\ (a = b) => (r = 0)
        /\ (a = 350 /\ b = 10) => (r = 20)
        /\ Congruent(a - b, r) \/ Congruent(b - a, r)

\* The wrap-around pair of the unit tests.
C16_Witness ==
  /\ DifferenceReturned
  /\ callArgs[1].a = 350
  /\ callArgs[1].b = 10
  /\ callResult[1].forward = 20

\* C17: bearingToCompass maps every bearing to the congruent value in
\* [0, 360): -90 to 270, 450 to 90, 360 and 720 to 0; applying it to its own
\* result changes nothing.
C17_BearingToCompass ==
  CompassReturned =>
    LET bearing == callArgs[1].bearing
        r == callResult[1].once
    IN  /\ r >= 0 /\ r < 360
        /\ Congruent(bearing, r)
        /\ (bearing = -90) => (r = 270)
        /\ (bearing = 450) => (r = 90)
        /\ (bearing \in {360, 720}) => (r = 0)
        /\ callResult[1].twice = r

\* A negative bearing brought into the compass range.
C17_Witness ==
  /\ CompassReturned
  /\ callArgs[1].bearing = -90
  /\ callResult[1].once = 270

---------------------------------------------------------------------------
(* src/hooks/useSunCalculations.ts: getSunPosition, getSunTimes and        *)
(* computeArc.  A Date is a whole number of minutes of local time (no      *)
(* daylight-saving shift), so getTime() counts minutes and the division by *)
(* 60000 ms per minute is the change of unit; an Invalid Date is <<>> and  *)
(* a valid one is <<minutes>>.  A JavaScript number that may be NaN is     *)
(* <<>> for NaN and <<n>> otherwise.  Angles are whole degrees, so         *)
(* radToDeg is the change of unit.                                         *)
(*                                                                         *)
(* The suncalc library is modelled by spherical astronomy to the nearest   *)
(* degree: the declination follows a sine over the year, the hour angle    *)
(* advances one degree in four minutes, and sunrise and sunset are the     *)
(* instants where the hour angle H satisfies                               *)
(* cos H = -tan(lat) * tan(declination); when no H does, suncalc takes the *)
(* arc cosine of a value outside [-1, 1] and returns Invalid Dates.        *)

NaN == << >>
Num(n) == <<n>>
InvalidDate == << >>
JsSub(x, y) == IF x = NaN \/ y = NaN THEN NaN ELSE Num(x[1] - y[1])
\* Math.max(x, y): NaN when either argument is NaN.
MathMax(x, y) ==
  IF x = NaN \/ y = NaN THEN NaN ELSE Num(IF x[1] >= y[1] THEN x[1] ELSE y[1])
\* date.getTime(): NaN for an Invalid Date.
GetTime(date) == IF date = InvalidDate THEN NaN ELSE Num(date[1])

\* n / d to the nearest whole number, for d > 0.
RoundDiv(n, d) ==
  IF n >= 0 THEN (2 * n + d) \div (2 * d) ELSE -((2 * (-n) + d) \div (2 * d))

\* Sine and cosine scaled by 100.
Sin2(deg) == RoundDiv(SinE4(deg), 100)
Cos2(deg) == RoundDiv(CosE4(deg), 100)

\* The largest whole degree in lo..hi whose sine does not exceed s / 10^4,
\* given that the sine of lo does not; by bisection, the sine rising on -90..90.
RECURSIVE SineFloor(_, _, _)
SineFloor(s, lo, hi) ==
  LET mid == (lo + hi + 1) \div 2
  IN  IF lo >= hi THEN lo
      ELSE IF SinE4(mid) <= s THEN SineFloor(s, mid, hi)
      ELSE SineFloor(s, lo, mid - 1)

\* Math.asin of s / 10^4 to the nearest whole degree, -90..90.
ArcSinDeg(s) ==
  IF s <= -10000 THEN -90
  ELSE IF s >= 10000 THEN 90
  ELSE LET a == SineFloor(s, -90, 90)
       IN  IF s - SinE4(a) <= SinE4(a + 1) - s THEN a ELSE a + 1

\* Math.acos of c / 10^4 to the nearest whole degree, 0..180.
ArcCosDeg(c) == 90 - ArcSinDeg(c)

\* Math.atan2(y, x) in whole degrees, -180..180.
Atan2Deg(y, x) == turfBearing(<<0, 0>>, <<y, x>>)

\* Local midnight of the calendar day of the instant.
DayStart(minutes) == minutes - (minutes % 1440)

\* Declination of the sun on the day of the instant, in degrees: 23 degrees
\* times the sine of the season, day 80 of the year being the March equinox.
Declination(minutes) ==
  LET day == (minutes \div 1440) % 365
  IN  RoundDiv(23 * Sin2(((day - 80) * 360) \div 365), 100)

\* The instant of solar noon of the day: four minutes earlier per degree east.
SolarNoon(minutes, lng) == DayStart(minutes) + 720 - 4 * lng

\* SunCalc.getTimes(date, lat, lng): the markers read by getSunTimes.
SunCalcGetTimes(minutes, lat, lng) ==
  LET decl  == Declination(minutes)
      noon  == SolarNoon(minutes, lng)
      num   == -(Sin2(lat) * Sin2(decl))
      den   == Cos2(lat) * Cos2(decl)
      valid == den # 0 /\ Abs(num) <= Abs(den)
      H     == ArcCosDeg(IF den > 0 THEN RoundDiv(num * 10000, den)
                         ELSE RoundDiv((-num) * 10000, -den))
  IN  [sunrise   |-> IF valid THEN Some(noon - 4 * H) ELSE InvalidDate,
       sunset    |-> IF valid THEN Some(noon + 4 * H) ELSE InvalidDate,
       solarNoon |-> Some(noon),
       nadir     |-> Some(noon - 720)]

\* SunCalc.getPosition(date, lat, lng): azimuth from south, positive westward,
\* and altitude, both in degrees.
SunCalcGetPosition(minutes, lat, lng) ==
  LET decl == Declination(minutes)
      tau  == RoundDiv(minutes - SolarNoon(minutes, lng), 4)
      s    == Sin2(lat) * Sin2(decl)
                + RoundDiv(Cos2(lat) * Cos2(decl) * Cos2(tau), 100)
      y    == Sin2(tau) * Cos2(decl)
      x    == RoundDiv(Cos2(tau) * Sin2(lat) * Cos2(decl), 100)
                - Sin2(decl) * Cos2(lat)
  IN  [azimuth |-> Atan2Deg(y, x), altitude |-> ArcSinDeg(s)]

\* (radToDeg(azimuthRad) + 180) % 360
sunCalcAzimuthToCompass(azimuthDeg) == JsRem(azimuthDeg + 180, 360)

getSunPosition(lat, lng, date) ==
  LET pos == SunCalcGetPosition(date, lat, lng)
  IN  [azimuth |-> sunCalcAzimuthToCompass(pos.azimuth), altitude |-> pos.altitude]

\* Of the twelve markers copied from the library the model keeps four; the
\* others are copied in the same way and none enters dayLength.
getSunTimes(lat, lng, date) ==
  LET times     == SunCalcGetTimes(date, lat, lng)
      sunriseMs == GetTime(times.sunrise)
      sunsetMs  == GetTime(times.sunset)
      dayLength == JsSub(sunsetMs, sunriseMs)
  IN  [sunrise   |-> times.sunrise,
       sunset    |-> times.sunset,
       solarNoon |-> times.solarNoon,
       nadir     |-> times.nadir,
       dayLength |-> MathMax(Num(0), dayLength)]

\* The body of the loop of computeArc for the loop variable m.
ArcSample(lat, lng, dayStart, m) ==
  LET t   == dayStart + m
      pos == SunCalcGetPosition(t, lat, lng)
  IN  [azimuth  |-> sunCalcAzimuthToCompass(pos.azimuth),
       altitude |-> pos.altitude,
       time     |-> t]

\* computeArc with the loop stopping before the sample at 24:00 (m < 1440).
computeArc_Exclusive(lat, lng, date) ==
  LET dayStart == DayStart(date)
      visited  == { m \in 0..1439 : m % StepMinutes = 0 }
  IN  [i \in 1..Cardinality(visited) |->
         ArcSample(lat, lng, dayStart, (i - 1) * StepMinutes)]

\* for (m = 0; m <= 1440; m += 10): the loop variable visits, in rising order,
\* the multiples of the step from 0 to 1440, and pushes one sample at each.
computeArc(lat, lng, date) ==
  LET dayStart == DayStart(date)
      visited  == { m \in 0..1440 : m % StepMinutes = 0 }
  IN  [i \in 1..Cardinality(visited) |->
         ArcSample(lat, lng, dayStart, (i - 1) * StepMinutes)]

---------------------------------------------------------------------------
(* SpecEphemeris: one call of getSunPosition, getSunTimes or computeArc.   *)
(* The functions take any number as latitude, so the latitudes include     *)
(* values outside [-90, 90]; the days are the March equinox and the two    *)
(* solstices.  None of the three functions has a throw statement and the   *)
(* library computes with any latitude, so every call returns.              *)

Latitudes == {-100, -80, 0, 38, 80, 91}
Longitudes == {-120, 0}
Days == {80, 172, 355}
MinutesOfDay == {0, 1, 725, 1439}
Instants == { d * 1440 + m : d \in Days, m \in MinutesOfDay }

InitEphemeris ==
  /\ AppIdle
  /\ HooksIdle
  /\ callArgs \in { Some([fn |-> f, lat |-> lat, lng |-> lng, date |-> t]) :
                      f \in {"getSunPosition", "getSunTimes", "computeArc"},
                      lat \in Latitudes, lng \in Longitudes, t \in Instants }
  /\ callResult = None

CallGetSunPosition ==
  /\ callResult = None
  /\ callArgs[1].fn = "getSunPosition"
  /\ callResult' = Some(Returned(getSunPosition(callArgs[1].lat, callArgs[1].lng,
                                                callArgs[1].date)))
  /\ UNCHANGED <<appVars, callArgs, hookVars>>

CallGetSunTimes ==
  /\ callResult = None
  /\ callArgs[1].fn = "getSunTimes"
  /\ callResult' = Some(Returned(getSunTimes(callArgs[1].lat, callArgs[1].lng,
                                             callArgs[1].date)))
  /\ UNCHANGED <<appVars, callArgs, hookVars>>

CallComputeArc ==
  /\ callResult = None
  /\ callArgs[1].fn = "computeArc"
  /\ callResult' = Some(Returned(computeArc(callArgs[1].lat, callArgs[1].lng,
                                            callArgs[1].date)))
  /\ UNCHANGED <<appVars, callArgs, hookVars>>

NextEphemeris == CallGetSunPosition \/ CallGetSunTimes \/ CallComputeArc

SpecEphemeris == InitEphemeris /\ [][NextEphemeris]_vars

---------------------------------------------------------------------------
(* Properties of the ephemeris functions, checked under SpecEphemeris.     *)

ArcReturned == callResult # None /\ callArgs[1].fn = "computeArc"
TimesReturned == callResult # None /\ callArgs[1].fn = "getSunTimes"
LatitudeInRange == callArgs[1].lat >= -90 /\ callArgs[1].lat <= 90

\* C18: computeArc returns exactly 145 samples for every location and
\* instant: the first at local midnight of the instant's calendar day, each
\* next one exactly 10 minutes after the previous one, the last 1440 minutes
\* after the first; the sample times are strictly increasing.
C18_ArcHas145Samples ==
  ArcReturned =>
    LET points == callResult[1].value
        date == callArgs[1].date
    IN  /\ ~callResult[1].threw
        /\ Len(points) = 145
        /\ points[1].time <= date
        /\ date - points[1].time < 24 * 60
        /\ points[1].time % (24 * 60) = 0
        /\ \A i \in 1..(Len(points) - 1) :
             /\ points[i + 1].time = points[i].time + 10
             /\ points[i].time < points[i + 1].time
        /\ points[Len(points)].time = points[1].time + 24 * 60

\* An arc computed for an instant one minute before the next midnight.
C18_Witness ==
  /\ ArcReturned
  /\ callArgs[1].date % 1440 = 1439
  /\ Len(callResult[1].value) = 145
  /\ callResult[1].value[145].time = callArgs[1].date + 1

\* C19: getSunTimes returns a dayLength that is a number >= 0 for every
\* location and day: max(0, sunset - sunrise) in minutes, and a defined value,
\* not NaN, when sunrise or sunset is undefined (polar day or polar night).
C19_DayLengthDefined ==
  (TimesReturned /\ LatitudeInRange) =>
    LET times == callResult[1].value
    IN  /\ times.dayLength # NaN
        /\ times.dayLength[1] >= 0
        /\ (times.sunrise # InvalidDate /\ times.sunset # InvalidDate) =>
             times.dayLength[1] =
               IF times.sunset[1] - times.sunrise[1] >= 0
                 THEN times.sunset[1] - times.sunrise[1] ELSE 0

\* C20: getSunPosition, getSunTimes and computeArc called with a latitude
\* outside [-90, 90] fail with an InvalidArgument error instead of returning a
\* position, times or path.
C20_LatitudeOutOfRangeFails ==
  (callResult # None /\ ~LatitudeInRange) =>
    /\ callResult[1].threw
    /\ "error" \in DOMAIN callResult[1]
    /\ callResult[1].error = "InvalidArgument"

---------------------------------------------------------------------------
(* src/hooks/useSunCalculations.ts in its memoizing form (kept in          *)
(* src/unnamed/part_001), driven by the state setters of SunApp            *)
(* (src/unnamed/part_003).  The calendar has 365-day years that start at   *)
(* minute 0; a state change and the render it causes are one step.         *)

\* Largest number of renders of the hook after the first one.
MaxRenders == 3

MonthLengths == <<31, 28, 31, 30, 31, 30, 31, 31, 30, 31, 30, 31>>

\* Month (0..11) and day of the month (1..) of day d (0..364) of a year,
\* counting from month m whose first day is day 0 of the count.
RECURSIVE MonthAndDate(_, _)
MonthAndDate(d, m) ==
  IF d < MonthLengths[m + 1] THEN [month |-> m, date |-> d + 1]
  ELSE MonthAndDate(d - MonthLengths[m + 1], m + 1)

GetFullYear(date) == 1970 + (date \div 1440) \div 365
GetMonth(date) == MonthAndDate((date \div 1440) % 365, 0).month
GetDate(date) == MonthAndDate((date \div 1440) % 365, 0).date

\* dayKey that leaves out the day of the month.
dayKey_NoDate(date) == <<GetFullYear(date), GetMonth(date)>>

\* `${getFullYear()}-${getMonth()}-${getDate()}`: the three numbers joined by
\* "-", held as the tuple of the three numbers.
dayKey(date) == <<GetFullYear(date), GetMonth(date), GetDate(date)>>

\* One render of useSunCalculations with the given arguments.
RenderSunCalculations(loc, dt) ==
  LET deps   == << IF loc = None THEN None ELSE Some(loc[1].lat),
                   IF loc = None THEN None ELSE Some(loc[1].lng),
                   dayKey(dt) >>
      stale  == arcMemoDeps # Some(deps)
      newArc == IF ~stale THEN arcMemo
                ELSE IF loc = None THEN None
                ELSE Some(computeArc(loc[1].lat, loc[1].lng, dt))
  IN  /\ geoLocation' = loc
      /\ dateTime' = dt
      /\ arcMemoDeps' = Some(deps)
      /\ arcMemo' = newArc
      /\ arcComputations' = IF stale THEN arcComputations + 1 ELSE arcComputations
      /\ sunDataMemo' =
           IF loc = None \/ newArc = None THEN None
           ELSE Some([position |-> getSunPosition(loc[1].lat, loc[1].lng, dt),
                      times    |-> getSunTimes(loc[1].lat, loc[1].lng, dt),
                      arc      |-> newArc[1]])
      /\ renders' = renders + 1

---------------------------------------------------------------------------
(* SpecSunCalculations: SunApp mounts with no location and dateTime at 0,  *)
(* then the location is set, the date and time are set, or the animation   *)
(* ticks (5 minutes in time mode, one day within the year in date mode).   *)

LocationValues == { None, Some([lat |-> 38, lng |-> -120]), Some([lat |-> 0, lng |-> 0]) }
DateTimeValues == { 1435, 364 * 1440 + 720, 365 * 1440 + 1435 }

othersThanMemo ==
  <<appVars, callArgs, callResult, fetchVars, cacheVars, shadowVars, timerVars>>

\* The state after the first render: the memo callback ran once and gave null.
InitSunCalculations ==
  /\ AppIdle
  /\ TimerIdle
  /\ ShadowIdle
  /\ FetchIdle
  /\ CacheIdle
  /\ callArgs = None
  /\ callResult = None
  /\ geoLocation = None
  /\ dateTime = 0
  /\ arcMemoDeps = Some(<<None, None, dayKey(0)>>)
  /\ arcMemo = None
  /\ sunDataMemo = None
  /\ arcComputations = 1
  /\ renders = 0

SetLocation ==
  /\ renders < MaxRenders
  /\ \E loc \in LocationValues : RenderSunCalculations(loc, dateTime)
  /\ UNCHANGED othersThanMemo

SetDateTime ==
  /\ renders < MaxRenders
  /\ \E dt \in DateTimeValues : RenderSunCalculations(geoLocation, dt)
  /\ UNCHANGED othersThanMemo

\* handleTick in time mode: next.setMinutes(next.getMinutes() + 5).
TickTime ==
  /\ renders < MaxRenders
  /\ RenderSunCalculations(geoLocation, dateTime + 5)
  /\ UNCHANGED othersThanMemo

\* handleTick in date mode: one day later, or 1 January of the same year when
\* that would be in the next year.
TickDate ==
  /\ renders < MaxRenders
  /\ LET next == dateTime + 1440
     IN  RenderSunCalculations(geoLocation,
           IF GetFullYear(next) # GetFullYear(dateTime)
             THEN (GetFullYear(dateTime) - 1970) * 365 * 1440 + (dateTime % 1440)
             ELSE next)
  /\ UNCHANGED othersThanMemo

NextSunCalculations == SetLocation \/ SetDateTime \/ TickTime \/ TickDate

SpecSunCalculations == InitSunCalculations /\ [][NextSunCalculations]_vars

---------------------------------------------------------------------------
(* Properties of useSunCalculations, checked under SpecSunCalculations.    *)

\* Latitude, longitude and calendar day that the arc depends on.
ArcInputs(loc, dt) == <<loc, dt \div 1440>>

\* C21: after any sequence of location changes and date/time changes,
\* animation ticks included, the arc held by useSunCalculations equals
\* computeArc for the current location and calendar day, and the arc is
\* recomputed only when latitude, longitude or the calendar day changes, never
\* on a change of the time of day alone.
C21_ArcMemoFollowsDay ==
  /\ [](/\ (geoLocation = None) <=> (sunDataMemo = None)
        /\ geoLocation # None =>
             sunDataMemo[1].arc = computeArc(geoLocation[1].lat, geoLocation[1].lng,
                                             (dateTime \div 1440) * 1440))
  /\ [][arcComputations' # arcComputations =>
          ArcInputs(geoLocation', dateTime') # ArcInputs(geoLocation, dateTime)]_vars

\* Three renders with a location, of which two recomputed the arc (a new
\* location, a new day) and one, a tick of the time of day, kept it.
C21_Witness ==
  /\ geoLocation # None
  /\ sunDataMemo # None
  /\ dateTime % 1440 = 5
  /\ renders = 3
  /\ arcComputations = 3

---------------------------------------------------------------------------
(* src/lib/overpass.ts (kept in src/unnamed/part_006):                     *)
(* simplifyBuildingGeometries.  The outer ring of a feature is <<>>        *)
(* (coordinates[0] undefined) or <<ring>>.  turf.simplify either throws or *)
(* returns the feature with positions removed from its ring; which of      *)
(* these it does for a feature is recorded with the feature, in the field  *)
(* simplify.                                                               *)

\* Largest number of features handed to simplifyBuildingGeometries.
MaxSimplify == 2

\* ring !== undefined && ring.length >= 4
isValidPolygon(ring) == ring # None /\ Len(ring[1]) >= 4

\* The loop of simplifyBuildingGeometries that also keeps the original feature
\* when the simplified one is not valid.
RECURSIVE SimplifyScan_KeepOriginal(_, _, _)
SimplifyScan_KeepOriginal(features, i, simplified) ==
  IF i > Len(features) THEN simplified
  ELSE
    LET feature == features[i]
        Continue(fs) == SimplifyScan_KeepOriginal(features, i + 1, fs)
    IN  IF ~feature.simplify.threw /\ isValidPolygon(feature.simplify.ring)
          THEN Continue(Append(simplified,
                               [id |-> feature.id, ring |-> feature.simplify.ring]))
        ELSE IF isValidPolygon(feature.ring)
          THEN Continue(Append(simplified, [id |-> feature.id, ring |-> feature.ring]))
        ELSE Continue(simplified)

simplifyBuildingGeometries_KeepOriginal(buildings) ==
  SimplifyScan_KeepOriginal(buildings, 1, << >>)

\* The loop of simplifyBuildingGeometries from feature i on.
RECURSIVE SimplifyScan(_, _, _)
SimplifyScan(features, i, simplified) ==
  IF i > Len(features) THEN simplified
  ELSE
    LET feature == features[i]
        Continue(fs) == SimplifyScan(features, i + 1, fs)
    IN  IF ~feature.simplify.threw
          THEN IF isValidPolygon(feature.simplify.ring)
                 THEN Continue(Append(simplified,
                        [id |-> feature.id, ring |-> feature.simplify.ring]))
                 ELSE Continue(simplified)
        ELSE IF isValidPolygon(feature.ring)
          THEN Continue(Append(simplified, [id |-> feature.id, ring |-> feature.ring]))
        ELSE Continue(simplified)

simplifyBuildingGeometries(buildings) == SimplifyScan(buildings, 1, << >>)

---------------------------------------------------------------------------
(* SpecSimplify: one call of simplifyBuildingGeometries on at most         *)
(* MaxSimplify features; feature i has id i.                               *)

OriginalRings ==
  { None,
    Some(<< <<0, 0>>, <<2, 0>>, <<0, 0>> >>),
    Some(<< <<0, 0>>, <<2, 0>>, <<2, 2>>, <<0, 0>> >>),
    Some(<< <<0, 0>>, <<1, 0>>, <<2, 0>>, <<2, 2>>, <<0, 0>> >>) }

\* The rings left when positions other than the first and the last are removed.
Thinned(ring) ==
  IF ring = None THEN {None}
  ELSE LET n == Len(ring[1])
           Pick(keep) == SelectSeq([i \in 1..n |-> <<i, ring[1][i]>>],
                                   LAMBDA e : e[1] \in keep)
       IN  { Some([k \in 1..Len(Pick(keep)) |-> Pick(keep)[k][2]]) :
               keep \in { ks \in SUBSET (1..n) : 1 \in ks /\ n \in ks } }

SimplifyOutcomes(ring) ==
  { [threw |-> TRUE] } \cup { [threw |-> FALSE, ring |-> r] : r \in Thinned(ring) }

SimplifyCases ==
  UNION { { [ring |-> r, simplify |-> o] : o \in SimplifyOutcomes(r) } :
          r \in OriginalRings }

SimplifyInputs(n) ==
  UNION { { [i \in 1..k |-> [id |-> i, ring |-> f[i].ring, simplify |-> f[i].simplify]] :
              f \in [1..k -> SimplifyCases] } :
          k \in 0..n }

InitSimplify ==
  /\ AppIdle
  /\ HooksIdle
  /\ callArgs \in { Some([buildings |-> bs]) : bs \in SimplifyInputs(MaxSimplify) }
  /\ callResult = None

CallSimplifyBuildingGeometries ==
  /\ callResult = None
  /\ callResult' = Some(simplifyBuildingGeometries(callArgs[1].buildings))
  /\ UNCHANGED <<appVars, callArgs, hookVars>>

NextSimplify == CallSimplifyBuildingGeometries

SpecSimplify == InitSimplify /\ [][NextSimplify]_vars

---------------------------------------------------------------------------
(* Properties of simplifyBuildingGeometries, checked under SpecSimplify.   *)

\* C22: simplifyBuildingGeometries outputs only features whose outer ring has
\* at least 4 points, in input order and at most one per input feature; a
\* feature whose simplified ring has fewer than 4 points is dropped, and the
\* original feature is emitted only when simplification fails and the original
\* ring is valid.
C22_SimplifiedRingsValid ==
  callResult # None =>
    LET input == callArgs[1].buildings
        out == callResult[1]
    IN  /\ \A k \in 1..Len(out) :
             /\ out[k].ring # None
             /\ Len(out[k].ring[1]) >= 4
             /\ out[k].id \in 1..Len(input)
             /\ LET feature == input[out[k].id]
                IN  IF feature.simplify.threw
                      THEN out[k].ring = feature.ring
                      ELSE out[k].ring = feature.simplify.ring
        /\ \A k \in 1..(Len(out) - 1) : out[k].id < out[k + 1].id
        /\ \A i \in 1..Len(input) :
             (~input[i].simplify.threw
                /\ (input[i].simplify.ring = None
                      \/ Len(input[i].simplify.ring[1]) < 4))
               => \A k \in 1..Len(out) : out[k].id # i

\* A feature whose ring collapses to 3 points and is dropped, beside a feature
\* on which simplification throws and whose valid original is kept.
C22_Witness ==
  /\ callResult # None
  /\ Len(callArgs[1].buildings) = 2
  /\ LET first == callArgs[1].buildings[1]
     IN  /\ ~first.simplify.threw
         /\ isValidPolygon(first.ring)
         /\ ~isValidPolygon(first.simplify.ring)
  /\ callArgs[1].buildings[2].simplify.threw
  /\ Len(callResult[1]) = 1
  /\ callResult[1][1].id = 2

---------------------------------------------------------------------------
(* src/lib/overpass.ts: the properties that overpassToGeoJSON gives to the *)
(* feature of a way, from the way's tags (lines 98-134).  A tag is <<>>    *)
(* (absent) or <<string>>; tags.levels stands for tags["building:levels"]. *)
(* Heights are rationals [num, den] with den > 0.                          *)

overpassProperties(tags) ==
  LET parsed == IF tags.height # None /\ Len(tags.height[1]) > 0
                  THEN parseFloat(tags.height[1]) ELSE NaN
      height1 == IF parsed # NaN THEN parsed[1] ELSE [num |-> 0, den |-> 1]
      source1 == IF parsed # NaN THEN "measured" ELSE "unknown"
      hasLevels == tags.levels # None /\ Len(tags.levels[1]) > 0
      \* parseInt(..., 10) || 0
      levels1 == IF hasLevels /\ parseInt(tags.levels[1]) # NaN
                   THEN parseInt(tags.levels[1])[1] ELSE 0
      estimate == hasLevels /\ height1.num = 0 /\ levels1 > 0
      height2 == IF estimate THEN [num |-> levels1 * 3, den |-> 1] ELSE height1
      source2 == IF estimate THEN "estimated" ELSE source1
      default == height2.num = 0 /\ levels1 = 0
      height3 == IF default THEN [num |-> 3, den |-> 1] ELSE height2
      levels3 == IF default THEN 1 ELSE levels1
  IN  [height |-> height3,
       \* levels || Math.ceil(height / 3)
       levels |-> IF levels3 # 0 THEN levels3
                  ELSE MathCeil(height3.num, 3 * height3.den),
       heightSource |-> IF default THEN "unknown" ELSE source2]

---------------------------------------------------------------------------
(* SpecOverpassProperties: the properties of one emitted way whose height  *)
(* and building:levels tags are absent or any string over TagChars of      *)
(* bounded length.                                                         *)

CallOverpassProperties ==
  /\ callResult = None
  /\ callResult' = Some(overpassProperties(callArgs[1].tags))
  /\ UNCHANGED <<appVars, callArgs, hookVars>>

NextOverpassProperties == CallOverpassProperties

SpecOverpassProperties == InitHeight /\ [][NextOverpassProperties]_vars

---------------------------------------------------------------------------
(* Properties of the features of src/lib/overpass.ts, checked under        *)
(* SpecOverpassProperties.                                                 *)

\* C23: every feature emitted by overpassToGeoJSON of src/lib/overpass.ts has
\* height > 0 and levels >= 1 whatever its height and building:levels tags
\* are, and its heightSource is "measured" only if the emitted height is the
\* parsed height tag.
C23_EmittedHeightPositive ==
  callResult # None =>
    /\ callResult[1].height.num > 0
    /\ callResult[1].levels >= 1
    /\ callResult[1].heightSource = "measured" =>
         /\ HeightTag # None
         /\ parseFloat(HeightTag[1]) = Some(callResult[1].height)

---------------------------------------------------------------------------
(* src/lib/buildingCache.ts.  Coordinates are whole multiples of 10^-4     *)
(* degree, cache keys pairs of whole multiples of 10^-3 degree.  The       *)
(* store is the object kept in localStorage, as the sequence of its        *)
(* entries [key, timestamp, data] in insertion order (the order of         *)
(* Object.keys and Object.entries); reads and writes of localStorage       *)
(* succeed.                                                                *)

TTL_MS == 3600000
MAX_ENTRIES == 50

makeBuildingCacheKey(lat, lng) == <<MathRound(lat, 10), MathRound(lng, 10)>>

StoreKeys(st) == { st[i].key : i \in 1..Len(st) }

StoreEntry(st, key) == st[CHOOSE i \in 1..Len(st) : st[i].key = key]

loadCachedBuildings(st, key, clock) ==
  IF key \notin StoreKeys(st) THEN None
  ELSE IF clock - StoreEntry(st, key).timestamp > TTL_MS THEN None
  ELSE Some(StoreEntry(st, key).data)

\* The store that pruneExpiredEntries writes back.
pruneExpiredEntries(st, clock) ==
  LET remaining == SelectSeq(st, LAMBDA e : ~(clock - e.timestamp > TTL_MS))
      n == Len(remaining)
      \* position of entry i after the stable sort by timestamp
      Sorted(i) == Cardinality({ j \in 1..n :
                     \/ remaining[j].timestamp < remaining[i].timestamp
                     \/ /\ remaining[j].timestamp = remaining[i].timestamp
                        /\ j <= i })
      toEvict == n - MAX_ENTRIES
      evicted == { remaining[i].key : i \in { j \in 1..n : Sorted(j) <= toEvict } }
  IN  IF n > MAX_ENTRIES
        THEN SelectSeq(remaining, LAMBDA e : e.key \notin evicted)
        ELSE remaining

saveBuildingsToCache(st, key, data, clock) ==
  LET pruned == pruneExpiredEntries(st, clock)
      entry == [key |-> key, timestamp |-> clock, data |-> data]
  IN  IF key \in StoreKeys(pruned)
        THEN [i \in 1..Len(pruned) |-> IF pruned[i].key = key THEN entry ELSE pruned[i]]
        ELSE Append(pruned, entry)

---------------------------------------------------------------------------
(* src/hooks/useBuildingData.ts.  A run of the effect is one step: the     *)
(* cleanup of the previous run, if it returned one, and then the body.     *)
(* The timeout and the fetch it starts carry the number of the run of the  *)
(* effect that set the timeout.  A building set is the answer of the       *)
(* server: its features, each with the locations it covers, and with it    *)
(* the location asked for and the time of the answer.                      *)

\* Largest number of runs of the effect.
MaxEffects == 4
\* Largest number of long idle periods.
MaxWaits == 2
DebounceMs == 500

\* detectPinBuilding: the first feature that contains loc.
detectPinBuilding(data, loc) ==
  LET hits == { i \in 1..Len(data.features) : loc \in data.features[i].covers }
  IN  IF hits = {} THEN None
      ELSE Some(data.features[CHOOSE i \in hits : \A j \in hits : i <= j])

\* clearTimeout(debounceRef.current)
clearTimeout(pending, ref) ==
  IF ref = None THEN pending ELSE { t \in pending : t.id # ref[1] }

\* abortRef.current?.abort() when abort() has no effect on the fetch.
abort_Ignored(inFlight, ref) == inFlight

\* abortRef.current?.abort()
abort(inFlight, ref) ==
  IF ref = None THEN inFlight
  ELSE { IF r.id = ref[1] THEN [r EXCEPT !.aborted = TRUE] ELSE r : r \in inFlight }

CacheGet(cache, key) ==
  IF \E e \in cache : e.key = key
    THEN Some((CHOOSE e \in cache : e.key = key).data)
    ELSE None

CacheSet(cache, key, data) ==
  { e \in cache : e.key # key } \cup { [key |-> key, data |-> data] }

\* The effect of useBuildingData, run because location or enabled was set.
RunEffect(loc, en) ==
  LET timers1 == IF cleanup THEN clearTimeout(timers, debounceRef) ELSE timers
      requests1 == IF cleanup THEN abort(requests, abortRef) ELSE requests
      run == effectRun + 1
  IN
  /\ effectRun < MaxEffects
  /\ fetchLocation' = loc
  /\ enabled' = en
  /\ effectRun' = run
  /\ UNCHANGED <<isLoading, abortRef, store, now, waits>>
  /\ IF ~en \/ loc = None
       THEN /\ fetchedData' = None
            /\ pinBuilding' = None
            /\ timers' = timers1
            /\ requests' = requests1
            /\ cleanup' = FALSE
            /\ UNCHANGED <<cacheRef, debounceRef>>
     ELSE
       LET cacheKey == makeBuildingCacheKey(loc[1].lat, loc[1].lng)
           memCached == CacheGet(cacheRef, cacheKey)
           diskCached == loadCachedBuildings(store, cacheKey, now)
       IN  IF memCached # None
             THEN /\ fetchedData' = memCached
                  /\ pinBuilding' = detectPinBuilding(memCached[1], loc[1])
                  /\ timers' = timers1
                  /\ requests' = requests1
                  /\ cleanup' = FALSE
                  /\ UNCHANGED <<cacheRef, debounceRef>>
           ELSE IF diskCached # None
             THEN /\ cacheRef' = CacheSet(cacheRef, cacheKey, diskCached[1])
                  /\ fetchedData' = diskCached
                  /\ pinBuilding' = detectPinBuilding(diskCached[1], loc[1])
                  /\ timers' = timers1
                  /\ requests' = requests1
                  /\ cleanup' = FALSE
                  /\ UNCHANGED debounceRef
           ELSE /\ timers' = clearTimeout(timers1, debounceRef)
                               \cup { [id |-> run, location |-> loc[1],
                                       cacheKey |-> cacheKey,
                                       deadline |-> now + DebounceMs] }
                /\ requests' = abort(requests1, abortRef)
                /\ debounceRef' = Some(run)
                /\ cleanup' = TRUE
                /\ UNCHANGED <<cacheRef, fetchedData, pinBuilding>>

\* The callback of the timeout up to its await: a controller and a fetch.
FireTimer(t) ==
  /\ timers' = timers \ {t}
  /\ now' = IF now < t.deadline THEN t.deadline ELSE now
  /\ abortRef' = Some(t.id)
  /\ isLoading' = TRUE
  /\ requests' = requests \cup { [id |-> t.id, location |-> t.location,
                                  cacheKey |-> t.cacheKey, aborted |-> FALSE] }
  /\ UNCHANGED <<fetchLocation, enabled, fetchedData, pinBuilding, cacheRef,
                 debounceRef, cleanup, effectRun, store, waits>>

\* What the server holds around the locations of the model: one building.
ServerFeatures == << [id |-> 1, covers |-> { [lat |-> 380000, lng |-> -1200000] }] >>

\* fetchBuildings resolves: the rest of the try block, and the finally block.
FetchResolves(r) ==
  LET data == [features |-> ServerFeatures, requested |-> r.location, at |-> now]
  IN
  /\ ~r.aborted
  /\ requests' = requests \ {r}
  /\ cacheRef' = CacheSet(cacheRef, r.cacheKey, data)
  /\ store' = saveBuildingsToCache(store, r.cacheKey, data, now)
  /\ fetchedData' = Some(data)
  /\ pinBuilding' = detectPinBuilding(data, r.location)
  /\ isLoading' = FALSE
  /\ UNCHANGED <<fetchLocation, enabled, debounceRef, abortRef, cleanup,
                 effectRun, timers, now, waits>>

\* fetchBuildings rejects, with an AbortError if the fetch was aborted and
\* with an error of the network or of the server at any time: the catch and
\* the finally block.
FetchRejects(r) ==
  /\ requests' = requests \ {r}
  /\ isLoading' = FALSE
  /\ UNCHANGED <<fetchLocation, enabled, fetchedData, pinBuilding, cacheRef,
                 debounceRef, abortRef, cleanup, effectRun, timers, store, now,
                 waits>>

\* Nothing happens for the TTL of the cache, or for a millisecond longer.
Wait(ms) ==
  /\ waits < MaxWaits
  /\ timers = {}
  /\ requests = {}
  /\ now' = now + ms
  /\ waits' = waits + 1
  /\ UNCHANGED <<fetchLocation, enabled, fetchedData, pinBuilding, isLoading,
                 cacheRef, debounceRef, abortRef, cleanup, effectRun, timers,
                 requests, store>>

\* The page is loaded again: its timeouts and fetches are gone, the hook is
\* mounted with its initial state and refs and its effect runs with no
\* location; localStorage is kept.
Reload ==
  /\ effectRun < MaxEffects
  /\ effectRun' = effectRun + 1
  /\ fetchLocation' = None
  /\ enabled' = FALSE
  /\ fetchedData' = None
  /\ pinBuilding' = None
  /\ isLoading' = FALSE
  /\ cacheRef' = {}
  /\ debounceRef' = None
  /\ abortRef' = None
  /\ cleanup' = FALSE
  /\ timers' = {}
  /\ requests' = {}
  /\ UNCHANGED <<store, now, waits>>

FetchLocations ==
  { [lat |-> 380000, lng |-> -1200000],
    [lat |-> 380004, lng |-> -1200000],
    [lat |-> 380010, lng |-> -1200000] }

othersThanFetch ==
  <<appVars, callArgs, callResult, memoVars, cacheVars, shadowVars, timerVars>>

\* The state after the first render: the effect ran once, with no location.
InitBuildingData ==
  /\ AppIdle
  /\ TimerIdle
  /\ ShadowIdle
  /\ MemoIdle
  /\ CacheIdle
  /\ callArgs = None
  /\ callResult = None
  /\ FetchIdle

ChangeDependencies ==
  /\ \E loc \in {None} \cup { Some(l) : l \in FetchLocations }, en \in BOOLEAN :
       RunEffect(loc, en)
  /\ UNCHANGED othersThanFetch

TimerFires ==
  /\ \E t \in timers : FireTimer(t)
  /\ UNCHANGED othersThanFetch

ResponseArrives ==
  /\ \E r \in requests : FetchResolves(r)
  /\ UNCHANGED othersThanFetch

RequestFails ==
  /\ \E r \in requests : FetchRejects(r)
  /\ UNCHANGED othersThanFetch

TimePasses ==
  /\ \E ms \in {TTL_MS, TTL_MS + 1} : Wait(ms)
  /\ UNCHANGED othersThanFetch

PageReloads ==
  /\ Reload
  /\ UNCHANGED othersThanFetch

NextBuildingData ==
  \/ ChangeDependencies
  \/ PageReloads
  \/ TimerFires
  \/ ResponseArrives
  \/ RequestFails
  \/ TimePasses

SpecBuildingData == InitBuildingData /\ [][NextBuildingData]_vars

---------------------------------------------------------------------------
(* Properties of useBuildingData, checked under SpecBuildingData.          *)

\* The fetch that settles in the step, if one does.
Settled == IF effectRun' = effectRun THEN requests \ requests' ELSE {}

\* C24: the answer to a fetch started for an earlier location is never
\* applied to buildingData, pinBuilding or the caches after location or
\* enabled has changed: every run of the effect clears the pending timeout
\* and aborts the fetch in flight, so that at most one timeout is pending and
\* at most one fetch is in flight that has not been aborted.
C24_StaleResponseDropped ==
  /\ [](/\ Cardinality(timers) <= 1
        /\ Cardinality({ r \in requests : ~r.aborted }) <= 1
        /\ \A t \in timers : t.id = effectRun
        /\ \A r \in requests : ~r.aborted => r.id = effectRun)
  /\ [][(/\ Settled # {}
         /\ <<fetchedData, pinBuilding, cacheRef, store>>'
               # <<fetchedData, pinBuilding, cacheRef, store>>)
        => \A r \in Settled :
             /\ r.id = effectRun
             /\ enabled
             /\ fetchLocation = Some(r.location)]_vars

\* The fetch of an earlier location has been aborted and not yet settled,
\* and the answer for the present location has been applied.
C24_Witness ==
  /\ \E r \in requests : r.aborted /\ Some(r.location) # fetchLocation
  /\ enabled
  /\ fetchLocation # None
  /\ fetchedData # None
  /\ fetchedData[1].requested = fetchLocation[1]
  /\ CacheGet(cacheRef, makeBuildingCacheKey(fetchLocation[1].lat,
                                             fetchLocation[1].lng)) = fetchedData

CurrentCacheKey == makeBuildingCacheKey(fetchLocation[1].lat, fetchLocation[1].lng)

\* C25: whenever useBuildingData is enabled with a location and exposes a
\* building set, that set is the one fetched or cached for the cache key of
\* the current location; the set of an earlier location with another cache
\* key is not exposed.
C25_ExposedDataOfCurrentKey ==
  (enabled /\ fetchLocation # None /\ fetchedData # None) =>
    makeBuildingCacheKey(fetchedData[1].requested.lat,
                         fetchedData[1].requested.lng) = CurrentCacheKey

\* The run of the effect in the step served buildingData from a cache.
ServedFromCache ==
  /\ effectRun' # effectRun
  /\ enabled'
  /\ fetchLocation' # None
  /\ \A t \in timers' : t.id # effectRun'

\* C26: a cached building set is served only while it is not expired:
\* useBuildingData never sets buildingData from a cache entry, persisted or
\* in memory, that was stored more than TTL_MS before it is served.
C26_CacheServedWithinTTL ==
  [][ServedFromCache => now' - fetchedData'[1].at <= TTL_MS]_vars

---------------------------------------------------------------------------
(* SpecCache: calls of saveBuildingsToCache on the store of                *)
(* src/lib/buildingCache.ts, one millisecond apart, each with a key not    *)
(* yet in the store or, once, with the key of the first entry of the       *)
(* store; once nothing happens for longer than the TTL.                    *)

\* Largest number of calls of saveBuildingsToCache.
MaxSaves == 53

NoBuildings == [features |-> << >>]

\* A cache key not in the store: one step north of its northernmost key.
FreshKey ==
  LET lats == { store[i].key[1] : i \in 1..Len(store) }
  IN  IF lats = {} THEN <<38000, -120000>>
      ELSE <<(CHOOSE a \in lats : \A b \in lats : b <= a) + 1, -120000>>

SaveCall(key) ==
  /\ saves < MaxSaves
  /\ saves' = saves + 1
  /\ now' = now + 1
  /\ store' = saveBuildingsToCache(store, key, NoBuildings, now + 1)
  /\ UNCHANGED <<fetchLocation, enabled, fetchedData, pinBuilding, isLoading,
                 cacheRef, debounceRef, abortRef, cleanup, effectRun, timers,
                 requests, waits>>

othersThanCache ==
  <<appVars, callArgs, callResult, memoVars, shadowVars, timerVars>>

InitCache ==
  /\ AppIdle
  /\ TimerIdle
  /\ ShadowIdle
  /\ MemoIdle
  /\ FetchIdle
  /\ CacheIdle
  /\ callArgs = None
  /\ callResult = None

SaveFreshKey ==
  /\ SaveCall(FreshKey)
  /\ UNCHANGED <<resaved, othersThanCache>>

SaveFirstKeyAgain ==
  /\ ~resaved
  /\ Len(store) > 1
  /\ resaved' = TRUE
  /\ SaveCall(store[1].key)
  /\ UNCHANGED othersThanCache

CacheIdles ==
  /\ waits = 0
  /\ Wait(TTL_MS + 1)
  /\ UNCHANGED <<cacheVars, othersThanCache>>

NextCache ==
  \/ SaveFreshKey
  \/ SaveFirstKeyAgain
  \/ CacheIdles

SpecCache == InitCache /\ [][NextCache]_vars

---------------------------------------------------------------------------
(* Properties of the persisted cache, checked under SpecCache.             *)

\* The entries that the step removes although they have not expired.
Evicted ==
  { i \in 1..Len(store) :
      /\ store[i].key \notin StoreKeys(store')
      /\ ~(now' - store[i].timestamp > TTL_MS) }

\* C27: after any sequence of calls of saveBuildingsToCache the store holds
\* at most MAX_ENTRIES entries once a call has returned, and the entries
\* that are evicted are those with the oldest timestamps.
C27_StoreWithinMaxEntries ==
  /\ [](Len(store) <= MAX_ENTRIES)
  /\ [][\A i \in Evicted : \A j \in 1..Len(store) :
          store[j].key \in StoreKeys(store')
            => store[i].timestamp <= store[j].timestamp]_vars

---------------------------------------------------------------------------
(* src/hooks/useShadowLayer.ts.  A change of buildingData, sunData or      *)
(* enabled is one step: the render, which stores the arguments in          *)
(* dataRef, the cleanup of the previous run of the throttle effect and     *)
(* the run of the effect.  The map exists from the start and its style     *)
(* loads later; a timeout fires when it is due.                            *)

THROTTLE_MS == 200
\* The clock stops changes of the inputs at this time.
MaxShadowClock == 600

\* The data that pushRef.current hands to the source.
ShadowData(inputs) ==
  IF /\ inputs.enabled
     /\ inputs.buildingData # None
     /\ inputs.sunData # None
     /\ inputs.sunData[1].position.altitude > 0
    THEN computeShadows(inputs.buildingData[1],
                        inputs.sunData[1].position.azimuth,
                        inputs.sunData[1].position.altitude)
    ELSE << >>

\* pushRef.current() with the source and the layer on the map.
Push ==
  IF ~readyRef'
    THEN UNCHANGED <<mapData, layerVisibility, unpushedSince>>
    ELSE /\ mapData' = Some(ShadowData(dataRef'))
         /\ layerVisibility' = IF dataRef'.enabled THEN "visible" ELSE "none"
         /\ unpushedSince' = None

\* buildingData, sunData or enabled change ms after the last step.
InputsChange(inputs, ms) ==
  LET due == IF throttleCleanup THEN None ELSE timerRef
  IN
  /\ inputs # dataRef
  /\ shadowNow + ms <= MaxShadowClock
  /\ timerRef # None => shadowNow + ms < timerRef[1]
  /\ shadowNow' = shadowNow + ms
  /\ dataRef' = inputs
  /\ unpushedSince' = IF unpushedSince = None THEN Some(shadowNow + ms)
                      ELSE unpushedSince
  /\ IF due # None
       THEN /\ timerRef' = due
            /\ throttleCleanup' = FALSE
       ELSE /\ timerRef' = Some(shadowNow + ms + THROTTLE_MS)
            /\ throttleCleanup' = TRUE
  /\ UNCHANGED <<readyRef, mapData, layerVisibility>>

\* The callback of the timeout.
ThrottleTimeout ==
  /\ timerRef # None
  /\ shadowNow' = IF shadowNow < timerRef[1] THEN timerRef[1] ELSE shadowNow
  /\ timerRef' = None
  /\ UNCHANGED <<dataRef, readyRef, throttleCleanup>>
  /\ Push

\* The load event of the map: setup adds the source and the layer.
Setup ==
  /\ ~readyRef
  /\ readyRef' = TRUE
  /\ UNCHANGED <<dataRef, timerRef, throttleCleanup, shadowNow>>
  /\ Push

ShadowBuildings == << [id |-> 1, ring |-> SouthNear, height |-> 3] >>

ShadowInputs ==
  { [buildingData |-> bd, sunData |-> sd, enabled |-> en] :
      bd \in {None, Some(ShadowBuildings)},
      sd \in {None, Some([position |-> [azimuth |-> 180, altitude |-> 45]]),
              Some([position |-> [azimuth |-> 180, altitude |-> -10]])},
      en \in BOOLEAN }

othersThanShadow ==
  <<appVars, callArgs, callResult, memoVars, fetchVars, cacheVars, timerVars>>

\* The state after the first render: the style of the map has not loaded, the
\* throttle effect has set its first timeout.
InitShadowLayer ==
  /\ AppIdle
  /\ TimerIdle
  /\ MemoIdle
  /\ FetchIdle
  /\ CacheIdle
  /\ callArgs = None
  /\ callResult = None
  /\ dataRef \in ShadowInputs
  /\ readyRef = FALSE
  /\ timerRef = Some(THROTTLE_MS)
  /\ throttleCleanup = TRUE
  /\ mapData = None
  /\ layerVisibility = "visible"
  /\ shadowNow = 0
  /\ unpushedSince = Some(0)

ShadowInputsChange ==
  /\ \E inputs \in ShadowInputs, ms \in {100, 300} : InputsChange(inputs, ms)
  /\ UNCHANGED othersThanShadow

ThrottleTimerFires ==
  /\ ThrottleTimeout
  /\ UNCHANGED othersThanShadow

MapLoads ==
  /\ Setup
  /\ UNCHANGED othersThanShadow

NextShadowLayer ==
  \/ ShadowInputsChange
  \/ ThrottleTimerFires
  \/ MapLoads

SpecShadowLayer == InitShadowLayer /\ [][NextShadowLayer]_vars

\* A timeout that is due fires, and the style of the map loads.
FairSpecShadowLayer ==
  /\ SpecShadowLayer
  /\ WF_vars(ThrottleTimerFires)
  /\ WF_vars(MapLoads)

---------------------------------------------------------------------------
(* Properties of useShadowLayer, checked under FairSpecShadowLayer.        *)

\* C28: shadow updates are throttled, not starved: once the map is ready, a
\* push to the map is due within THROTTLE_MS of the first change that has not
\* been pushed, also while the inputs keep changing at shorter intervals; and
\* once the inputs stop changing, the latest inputs are eventually pushed.
C28_ThrottledNotStarved ==
  /\ []((readyRef /\ unpushedSince # None) =>
          /\ timerRef # None
          /\ timerRef[1] <= unpushedSince[1] + THROTTLE_MS)
  /\ <>[](mapData = Some(ShadowData(dataRef)) /\ unpushedSince = None)

---------------------------------------------------------------------------
(* src/hooks/useAnimationTimer.ts.  A render with changed arguments is one *)
(* step together with the effects it triggers: the effect on [onTick], and *)
(* the cleanup and the body of the effect on [isPlaying, speed, clear].    *)

\* Largest number of renders with changed arguments.
MaxTimerRenders == 3
\* Largest number of ticks.
MaxTicks == 3

\* clear() that resets intervalRef.current and leaves the interval installed.
clearInterval_RefOnly(installed, ref) == installed

\* clearInterval(intervalRef.current), guarded by intervalRef.current !== null
clearInterval(installed, ref) ==
  IF ref = None THEN installed ELSE { t \in installed : t.id # ref[1] }

\* Math.max(16, 100 / speed), for the speeds of the model.
IntervalMs(s) == IF 100 \div s > 16 THEN 100 \div s ELSE 16

\* A render with the arguments p, s and cb, and its effects.
RenderTimer(p, s, cb) ==
  LET cleared == clearInterval(intervals, intervalRef)
      id == timerRenders + 1
  IN
  /\ mounted
  /\ timerRenders < MaxTimerRenders
  /\ <<p, s, cb>> # <<isPlaying, speed, onTick>>
  /\ timerRenders' = id
  /\ isPlaying' = p
  /\ speed' = s
  /\ onTick' = cb
  /\ onTickRef' = cb
  /\ IF <<p, s>> = <<isPlaying, speed>>
       THEN UNCHANGED <<intervals, intervalRef>>
     ELSE IF p
       THEN /\ intervals' = cleared \cup { [id |-> id, ms |-> IntervalMs(s)] }
            /\ intervalRef' = Some(id)
     ELSE /\ intervals' = cleared
          /\ intervalRef' = None
  /\ UNCHANGED <<mounted, invoked, ticks>>

\* The callback of an installed interval.
IntervalFires(t) ==
  /\ ticks < MaxTicks
  /\ ticks' = ticks + 1
  /\ invoked' = Some(onTickRef)
  /\ UNCHANGED <<isPlaying, speed, onTick, intervalRef, onTickRef, intervals,
                 mounted, timerRenders>>

\* The component is unmounted: the cleanup of the effect runs.
Unmount ==
  /\ mounted
  /\ mounted' = FALSE
  /\ intervals' = clearInterval(intervals, intervalRef)
  /\ intervalRef' = None
  /\ UNCHANGED <<isPlaying, speed, onTick, onTickRef, invoked, ticks, timerRenders>>

Speeds == {1, 2, 10}
Callbacks == {1, 2}

othersThanTimer ==
  <<appVars, callArgs, callResult, memoVars, fetchVars, cacheVars, shadowVars>>

\* The state after the first render and its effects.
InitAnimationTimer ==
  /\ AppIdle
  /\ MemoIdle
  /\ FetchIdle
  /\ CacheIdle
  /\ ShadowIdle
  /\ callArgs = None
  /\ callResult = None
  /\ isPlaying \in BOOLEAN
  /\ speed \in Speeds
  /\ onTick = 1
  /\ onTickRef = 1
  /\ intervals = IF isPlaying THEN { [id |-> 0, ms |-> IntervalMs(speed)] } ELSE {}
  /\ intervalRef = IF isPlaying THEN Some(0) ELSE None
  /\ mounted = TRUE
  /\ invoked = None
  /\ ticks = 0
  /\ timerRenders = 0

ArgumentsChange ==
  /\ \E p \in BOOLEAN, s \in Speeds, cb \in Callbacks : RenderTimer(p, s, cb)
  /\ UNCHANGED othersThanTimer

Tick ==
  /\ \E t \in intervals : IntervalFires(t)
  /\ UNCHANGED othersThanTimer

ComponentUnmounts ==
  /\ Unmount
  /\ UNCHANGED othersThanTimer

NextAnimationTimer ==
  \/ ArgumentsChange
  \/ Tick
  \/ ComponentUnmounts

SpecAnimationTimer == InitAnimationTimer /\ [][NextAnimationTimer]_vars

---------------------------------------------------------------------------
(* Properties of useAnimationTimer, checked under SpecAnimationTimer.      *)

\* C29: at most one interval timer is installed at any time, across every
\* sequence of changes of isPlaying and speed and the unmount; onTick is never
\* invoked while isPlaying is false or after the unmount; and each tick
\* invokes the onTick callback supplied last.
C29_OneIntervalLatestCallback ==
  /\ [](/\ Cardinality(intervals) <= 1
        /\ (~isPlaying \/ ~mounted) => intervals = {}
        /\ \A t \in intervals : t.ms = IntervalMs(speed))
  /\ [][ticks' # ticks =>
          /\ isPlaying
          /\ mounted
          /\ invoked' = Some(onTick)]_vars

\* A tick has invoked the second callback at the fastest speed after two
\* changes of the arguments, and the component has then been unmounted.
C29_Witness ==
  /\ invoked = Some(2)
  /\ timerRenders >= 2
  /\ ticks >= 2
  /\ speed = 10
  /\ isPlaying
  /\ ~mounted
  /\ intervals = {}

---------------------------------------------------------------------------
(* src/lib/appState.ts: the URL query parameters.  Strings are sequences   *)
(* of characters; lat, lng and zoom are rationals [num, den] with den a    *)
(* power of ten, the other numbers whole; URLSearchParams is the set of    *)
(* its <<key, value>> pairs; name is <<>> (undefined) or <<string>>.       *)

DEFAULTS ==
  [location |-> None, zoom |-> [num |-> 13, den |-> 1], timeMinutes |-> 720,
   dayOfYear |-> 1, buildingsEnabled |-> TRUE, blockageEnabled |-> TRUE,
   shadowsEnabled |-> FALSE, userFloor |-> 1, pinDirection |-> 180,
   pinFov |-> 180]

DigitChar(d) == CHOOSE c \in Digits : DigitValue(c) = d

\* The decimal digits of a natural number.
RECURSIVE NatToString(_)
NatToString(n) ==
  IF n < 10 THEN <<DigitChar(n)>>
  ELSE Append(NatToString(n \div 10), DigitChar(n % 10))

\* The k decimal digits of n < 10^k, with leading zeros.
FixedDigits(n, k) == [i \in 1..k |-> DigitChar((n \div Pow10(k - i)) % 10)]

\* String(x) for a whole number, or for x >= 0 with one decimal.
NumberToString(x) ==
  IF x.den = 1
    THEN IF x.num < 0 THEN <<"-">> \o NatToString(-x.num) ELSE NatToString(x.num)
    ELSE NatToString(x.num \div x.den) \o <<".">>
           \o FixedDigits(x.num % x.den, 1)

IntToString(n) == NumberToString([num |-> n, den |-> 1])

\* x.toFixed(digits) that cuts the further decimals off.
toFixed_Truncating(x, digits) ==
  LET n == Abs(x.num) \div (x.den \div Pow10(digits))
  IN  (IF x.num < 0 THEN <<"-">> ELSE << >>)
        \o NatToString(n \div Pow10(digits)) \o <<".">>
        \o FixedDigits(n % Pow10(digits), digits)

\* x.toFixed(digits) for x with at least that many decimals: the nearest
\* multiple of 10^-digits, the sign kept also when that is zero.
toFixed(x, digits) ==
  LET n == RoundDiv(Abs(x.num), x.den \div Pow10(digits))
  IN  (IF x.num < 0 THEN <<"-">> ELSE << >>)
        \o NatToString(n \div Pow10(digits)) \o <<".">>
        \o FixedDigits(n % Pow10(digits), digits)

\* params.get(key): <<>> (null) or <<value>>.
ParamsGet(params, key) ==
  IF \E e \in params : e[1] = key
    THEN Some((CHOOSE e \in params : e[1] = key)[2])
    ELSE None

\* params.get(key) ?? ""
ParamsGetOrEmpty(params, key) ==
  IF ParamsGet(params, key) = None THEN << >> ELSE ParamsGet(params, key)[1]

BoolToString(b) == IF b THEN <<"1">> ELSE <<"0">>

stateToSearchParams(state) ==
  (IF state.location # None
     THEN { <<"lat", toFixed(state.location[1].lat, 5)>>,
            <<"lng", toFixed(state.location[1].lng, 5)>> }
          \cup (IF state.location[1].name # None /\ Len(state.location[1].name[1]) > 0
                  THEN { <<"n", state.location[1].name[1]>> } ELSE {})
     ELSE {})
  \cup (IF state.zoom # DEFAULTS.zoom
          THEN { <<"z", NumberToString(state.zoom)>> } ELSE {})
  \cup (IF state.timeMinutes # DEFAULTS.timeMinutes
          THEN { <<"t", IntToString(state.timeMinutes)>> } ELSE {})
  \cup (IF state.dayOfYear # DEFAULTS.dayOfYear
          THEN { <<"d", IntToString(state.dayOfYear)>> } ELSE {})
  \cup (IF state.buildingsEnabled # DEFAULTS.buildingsEnabled
          THEN { <<"b", BoolToString(state.buildingsEnabled)>> } ELSE {})
  \cup (IF state.blockageEnabled # DEFAULTS.blockageEnabled
          THEN { <<"bl", BoolToString(state.blockageEnabled)>> } ELSE {})
  \cup (IF state.shadowsEnabled # DEFAULTS.shadowsEnabled
          THEN { <<"sh", BoolToString(state.shadowsEnabled)>> } ELSE {})
  \cup (IF state.userFloor # DEFAULTS.userFloor
          THEN { <<"f", IntToString(state.userFloor)>> } ELSE {})
  \cup (IF state.pinDirection # DEFAULTS.pinDirection
          THEN { <<"dir", IntToString(state.pinDirection)>> } ELSE {})
  \cup (IF state.pinFov # DEFAULTS.pinFov
          THEN { <<"fov", IntToString(state.pinFov)>> } ELSE {})

\* The partial state, as the set of its <<field, value>> pairs.
searchParamsToState(params) ==
  LET lat == parseFloat(ParamsGetOrEmpty(params, "lat"))
      lng == parseFloat(ParamsGetOrEmpty(params, "lng"))
      z == parseFloat(ParamsGetOrEmpty(params, "z"))
      Whole(field, key) ==
        LET v == parseInt(ParamsGetOrEmpty(params, key))
        IN  IF v # NaN THEN { <<field, v[1]>> } ELSE {}
      Flag(field, key) ==
        LET v == ParamsGet(params, key)
        IN  IF v = Some(<<"0">>) \/ v = Some(<<"1">>)
              THEN { <<field, v = Some(<<"1">>)>> } ELSE {}
  IN  (IF lat # NaN /\ lng # NaN
         THEN { <<"location", Some([lat |-> lat[1], lng |-> lng[1],
                                     name |-> ParamsGet(params, "n")])>> }
         ELSE {})
      \cup (IF z # NaN THEN { <<"zoom", z[1]>> } ELSE {})
      \cup Whole("timeMinutes", "t")
      \cup Whole("dayOfYear", "d")
      \cup Flag("buildingsEnabled", "b")
      \cup Flag("blockageEnabled", "bl")
      \cup Flag("shadowsEnabled", "sh")
      \cup Whole("userFloor", "f")
      \cup Whole("pinDirection", "dir")
      \cup Whole("pinFov", "fov")

\* { ...DEFAULTS, ...partial }
MergeOverDefaults(partial) ==
  [field \in DOMAIN DEFAULTS |->
     IF \E e \in partial : e[1] = field
       THEN (CHOOSE e \in partial : e[1] = field)[2]
       ELSE DEFAULTS[field]]

---------------------------------------------------------------------------
(* SpecUrl: one state written to the URL parameters and read back.         *)

Coordinate(micro) == [num |-> micro, den |-> 1000000]

UrlLocations ==
  {None} \cup
  { Some([lat |-> Coordinate(lat), lng |-> Coordinate(lng), name |-> n]) :
      lat \in {38123456, -4, 0}, lng \in {-120987654, 2000000},
      n \in {None, Some(<<"H", "o", "m", "e">>), Some(<<"7">>)} }

AppStates ==
  [location : UrlLocations,
   zoom : { [num |-> 13, den |-> 1], [num |-> 135, den |-> 10], [num |-> 0, den |-> 1] },
   timeMinutes : {0, 720, 1439},
   dayOfYear : {1, 365},
   buildingsEnabled : BOOLEAN,
   blockageEnabled : BOOLEAN,
   shadowsEnabled : BOOLEAN,
   userFloor : {1, -1, 12},
   pinDirection : {180, 0},
   pinFov : {180, 90}]

InitUrl ==
  /\ AppIdle
  /\ HooksIdle
  /\ callArgs \in { Some([state |-> st]) : st \in AppStates }
  /\ callResult = None

CallUrlRoundTrip ==
  /\ callResult = None
  /\ callResult' =
       LET params == stateToSearchParams(callArgs[1].state)
       IN  Some([params |-> params,
                 state |-> MergeOverDefaults(searchParamsToState(params))])
  /\ UNCHANGED <<appVars, callArgs, hookVars>>

NextUrl == CallUrlRoundTrip

SpecUrl == InitUrl /\ [][NextUrl]_vars

---------------------------------------------------------------------------
(* Properties of the URL parameters, checked under SpecUrl.                *)

\* y is the multiple of 10^-5 nearest to x, a number of 10^-6.
RoundedTo5(x, y) ==
  /\ y.den = 100000
  /\ 2 * Abs(y.num * 10 - x.num) <= 10

\* C30: the URL parameters round-trip the state: for every state with whole
\* timeMinutes, dayOfYear, userFloor, pinDirection and pinFov, what
\* searchParamsToState reads from stateToSearchParams(state), merged over the
\* defaults, has every field other than location equal to that of the state,
\* the fields equal to their default being left out of the URL, and has the
\* location of the state with lat and lng rounded to 5 decimals.
C30_UrlRoundTrip ==
  callResult # None =>
    LET original == callArgs[1].state
        params == callResult[1].params
        restored == callResult[1].state
    IN  /\ \A field \in DOMAIN DEFAULTS \ {"location"} :
             restored[field] = original[field]
        /\ \A key \in {"z", "t", "d", "b", "bl", "sh", "f", "dir", "fov"} :
             LET field == CASE key = "z" -> "zoom" [] key = "t" -> "timeMinutes"
                            [] key = "d" -> "dayOfYear" [] key = "b" -> "buildingsEnabled"
                            [] key = "bl" -> "blockageEnabled" [] key = "sh" -> "shadowsEnabled"
                            [] key = "f" -> "userFloor" [] key = "dir" -> "pinDirection"
                            [] key = "fov" -> "pinFov"
             IN  (ParamsGet(params, key) = None) <=> (original[field] = DEFAULTS[field])
        /\ (original.location = None) <=> (restored.location = None)
        /\ original.location # None =>
             /\ RoundedTo5(original.location[1].lat, restored.location[1].lat)
             /\ RoundedTo5(original.location[1].lng, restored.location[1].lng)
             /\ restored.location[1].name = original.location[1].name

\* A named location south of the sixth decimal and a state that differs from
\* the defaults in every other field have been written and read back.
C30_Witness ==
  /\ callResult # None
  /\ callArgs[1].state.location # None
  /\ callArgs[1].state.location[1].lat.num = 38123456
  /\ callArgs[1].state.location[1].lng.num = -120987654
  /\ callResult[1].state.location[1].lat.num = 3812346
  /\ callResult[1].state.location[1].lng.num = -12098765
  /\ callArgs[1].state.location[1].name # None
  /\ \A field \in DOMAIN DEFAULTS : callArgs[1].state[field] # DEFAULTS[field]
  /\ callArgs[1].state.userFloor = -1
  /\ Cardinality(callResult[1].params) = 12
====
